---- MODULE Spec2Model ----
(***************************************************************************)
(* Model of the NSG rule merger (nsg_merger.py, azure_helper.py).          *)
(*                                                                         *)
(* One behaviour is one call of merge_nsg_rules: the main loop takes the   *)
(* target subnets one at a time and, for each, seeds the priority -> rule  *)
(* map from the existing file, imports Azure drift, merges the client      *)
(* request rows (safe mode), applies the base rules (overwrite mode) and   *)
(* writes the sorted list.  The rows of the existing file, of the Azure    *)
(* answer and of the two Excel sheets are drawn one at a time, in the      *)
(* order the loops of the code visit them.                                 *)
(***************************************************************************)
EXTENDS Integers, Sequences, FiniteSets, TLC

\* ------------------------------------------------------------ constants
START_PRIORITY == 1000
PRIORITY_STEP == 10

\* How many rule blocks, Azure rules, client rows and base rows one subnet sees.
MaxExisting == 2
MaxAzure == 2
MaxClient == 2
MaxBase == 2

\* How many rows of the request sheet a merged and then validated run reads.
MaxRequests == 1

\* ------------------------------------------------------------ vocabulary
\* The cell texts and field values the inputs are drawn from.
DirectionCells == {"Inbound", "Outbound", "Out"}
PriorityCells == {"NaN", "0", "1000", "1010"}
BasePriorityCells == {"NaN", "1000"}
PortCells == {"443"}
AccessCells == {"Allow", "Deny", "allow", "Permit"}
ProtocolCells == {"Tcp", "Udp", "tcp", "Any", "*", "Esp"}
RequestDirectionCells == DirectionCells \cup {"inbound ", "Egress", "Both"}
AddressCells == {"*", "Any", " 10.0.0.1, 10.0.0.2", "{{CurrentSubnet}}", "{{VNetCIDR}}",
                 "{{CurrentSubnet}},{{VNetCIDR}},{{CurrentSubnet}}"}
AllPortCells == PortCells \cup {"80", "22", "3389", "any", "80.443", "80, 443,"}

\* ------------------------------------------------------------ text
\* text.startswith(prefix)
HasPrefix(text, prefix) ==
  Len(text) >= Len(prefix) /\ SubSeq(text, 1, Len(prefix)) = prefix

\* text.replace(old, new): every occurrence, left to right, without overlap.
RECURSIVE Replace(_, _, _)
Replace(text, old, new) ==
  IF Len(text) < Len(old) THEN text
  ELSE IF HasPrefix(text, old)
         THEN new \o Replace(SubSeq(text, Len(old) + 1, Len(text)), old, new)
         ELSE SubSeq(text, 1, 1) \o Replace(SubSeq(text, 2, Len(text)), old, new)

\* sub in text
RECURSIVE InText(_, _)
InText(sub, text) ==
  IF Len(text) < Len(sub) THEN FALSE
  ELSE HasPrefix(text, sub) \/ InText(sub, SubSeq(text, 2, Len(text)))

\* str.lower() of a character.
LowerChar(c) ==
  IF \E i \in 1..26 : SubSeq("ABCDEFGHIJKLMNOPQRSTUVWXYZ", i, i) = c
    THEN LET i == CHOOSE i \in 1..26 : SubSeq("ABCDEFGHIJKLMNOPQRSTUVWXYZ", i, i) = c
         IN SubSeq("abcdefghijklmnopqrstuvwxyz", i, i)
    ELSE c

\* str.upper() of a character.
UpperChar(c) ==
  IF \E i \in 1..26 : SubSeq("abcdefghijklmnopqrstuvwxyz", i, i) = c
    THEN LET i == CHOOSE i \in 1..26 : SubSeq("abcdefghijklmnopqrstuvwxyz", i, i) = c
         IN SubSeq("ABCDEFGHIJKLMNOPQRSTUVWXYZ", i, i)
    ELSE c

\* str(text).lower()
RECURSIVE LowerText(_)
LowerText(text) ==
  IF Len(text) = 0 THEN ""
  ELSE LowerChar(SubSeq(text, 1, 1)) \o LowerText(SubSeq(text, 2, Len(text)))

\* str(text).upper()
RECURSIVE UpperText(_)
UpperText(text) ==
  IF Len(text) = 0 THEN ""
  ELSE UpperChar(SubSeq(text, 1, 1)) \o UpperText(SubSeq(text, 2, Len(text)))

\* text.strip(chars): the characters of chars are removed from both ends.
RECURSIVE StripChars(_, _)
StripChars(text, chars) ==
  IF Len(text) = 0 THEN ""
  ELSE IF InText(SubSeq(text, 1, 1), chars) THEN StripChars(SubSeq(text, 2, Len(text)), chars)
  ELSE IF InText(SubSeq(text, Len(text), Len(text)), chars)
         THEN StripChars(SubSeq(text, 1, Len(text) - 1), chars)
  ELSE text

\* text.strip(): blanks are the whitespace of the cell texts.
StripText(text) == StripChars(text, " ")

\* The texts of the Direction, Access and Protocol cells and fields.
Texts == RequestDirectionCells \cup AccessCells \cup ProtocolCells

\* str(x).upper().strip() of each of them, computed once.
UpperStripOf == [s \in Texts |-> StripText(UpperText(s))]

\* str(x).upper().strip()
UpperStrip(s) == IF s \in Texts THEN UpperStripOf[s] ELSE StripText(UpperText(s))

\* The upper-cased texts, and whether "IN" and "OUT" are in each, computed once.
UpperTexts == { UpperStripOf[s] : s \in Texts }
HoldsIN == { s \in UpperTexts : InText("IN", s) }
HoldsOUT == { s \in UpperTexts : InText("OUT", s) }

\* "IN" in s, for an upper-cased direction text.
ContainsIN(s) == IF s \in UpperTexts THEN s \in HoldsIN ELSE InText("IN", s)

\* "OUT" in s, for an upper-cased direction text.
ContainsOUT(s) == IF s \in UpperTexts THEN s \in HoldsOUT ELSE InText("OUT", s)

api_map ==
  [k \in {"TCP", "UDP", "ICMP", "ANY", "*", "INBOUND", "OUTBOUND", "ALLOW", "DENY"} |->
     CASE k = "TCP" -> "Tcp"
       [] k = "UDP" -> "Udp"
       [] k = "ICMP" -> "Icmp"
       [] k = "ANY" -> "*"
       [] k = "*" -> "*"
       [] k = "INBOUND" -> "Inbound"
       [] k = "OUTBOUND" -> "Outbound"
       [] k = "ALLOW" -> "Allow"
       [] k = "DENY" -> "Deny"]

\* api_map.get(k, default)
ApiGet(k, default) == IF k \in DOMAIN api_map THEN api_map[k] ELSE default

\* pd.isna(val) or str(val).strip().lower() in ["", "any", "all", "*"]
\* ("NaN" stands for the missing cell).
IsBlankCell(val) == val = "NaN" \/ LowerText(StripText(val)) \in {"", "any", "all", "*"}

\* RE_WHITESPACE.sub("", text)
RemoveWhitespace(text) == Replace(text, " ", "")

\* text without its leading whitespace (the \s* of a pattern).
RECURSIVE SkipBlanks(_)
SkipBlanks(text) ==
  IF HasPrefix(text, " ") THEN SkipBlanks(SubSeq(text, 2, Len(text))) ELSE text

\* \d
IsDigit(c) == Len(c) = 1 /\ InText(c, "0123456789")

\* RE_DOT_BETWEEN_NUMBERS.sub(r"\1,\2", text), with (\d)\s*\.\s*(\d): matches
\* are taken left to right and do not overlap.
RECURSIVE DotToComma(_)
DotToComma(text) ==
  IF Len(text) = 0 THEN ""
  ELSE LET first == SubSeq(text, 1, 1)
           rest == SubSeq(text, 2, Len(text))
           dot == SkipBlanks(rest)
           second == SkipBlanks(SubSeq(dot, 2, Len(dot)))
       IN IF /\ IsDigit(first)
             /\ HasPrefix(dot, ".")
             /\ Len(second) > 0
             /\ IsDigit(SubSeq(second, 1, 1))
            THEN first \o "," \o SubSeq(second, 1, 1)
                   \o DotToComma(SubSeq(second, 2, Len(second)))
            ELSE first \o DotToComma(rest)

\* clean_port, as the code computes it.
CleanPort(val) ==
  IF IsBlankCell(val) THEN "*"
  ELSE StripChars(Replace(RemoveWhitespace(DotToComma(val)), ",,", ","), ",")

\* clean_ip, as the code computes it.
CleanIp(val) == IF IsBlankCell(val) THEN "*" ELSE StripChars(RemoveWhitespace(val), ",")

\* Both on the cells of the vocabulary, computed once.
CleanPortOf == [val \in AllPortCells |-> CleanPort(val)]
CleanIpOf == [val \in AddressCells |-> CleanIp(val)]

\* clean_port
clean_port(val) == IF val \in AllPortCells THEN CleanPortOf[val] ELSE CleanPort(val)

\* clean_ip
clean_ip(val) == IF val \in AddressCells THEN CleanIpOf[val] ELSE CleanIp(val)

\* The two placeholders of the base rules sheet, the marker of a failed
\* calculation, and the address space of a project that names none.
CURRENT_SUBNET == "{{CurrentSubnet}}"
VNET_CIDR == "{{VNetCIDR}}"
ERROR_CIDR_CALC == "ERROR_CIDR_CALC"
DEFAULT_VNET_CIDR == "10.0.0.0/16"

\* Variant: only the first placeholder is replaced.
ReplacePlaceholders_CurrentOnly(text, current, vnet) ==
  Replace(text, CURRENT_SUBNET, current)

\* .replace("{{CurrentSubnet}}", current_cidr).replace("{{VNetCIDR}}", vnet_cidr)
ReplacePlaceholders(text, current, vnet) ==
  Replace(Replace(text, CURRENT_SUBNET, current), VNET_CIDR, vnet)

\* str(text)[:100]: every description of the vocabulary is shorter than 100 characters.
Description100(text) == text

\* RE_ALPHANUMERIC.sub('', str(subnet_key)) on the subnet keys (a key of
\* locals.tf is a \w+ word: letters, digits and underscores).
SubnetToken(key) == CASE key = "App_1" -> "App1" [] OTHER -> key

\* int(float(cell)) : the set holding the number, or {} when the cell is NaN,
\* blank or not a number (the code's None, or its ValueError).
ParsePriority(cell) ==
  CASE cell = "0" -> {0}
    [] cell = "1000" -> {1000}
    [] cell = "1010" -> {1010}
    [] cell = "4000" -> {4000}
    [] OTHER -> {}

\* ------------------------------------------------------------ address blocks
\* The address block texts of the vocabulary.
CidrTexts ==
  {"10.0.0.0/16", "10.0.0.0/24", "10.0.0.0/30", "10.0.0.4/32", "10.0.0.1/16",
   "10.0.0.0/33", "garbage"}

\* How many bits a split adds, and which sub-block is asked for.
CidrNewbits == {0, 1, 2, 8, 17}
CidrNetnums == {0, 1, 3, 4, 255, 256}

\* The dotted quad and the prefix length a text is read as; {} when the text has
\* no such form.
ReadCidr(text) ==
  CASE text = "10.0.0.0/16" -> {[o |-> <<10, 0, 0, 0>>, len |-> 16]}
    [] text = "10.0.0.0/24" -> {[o |-> <<10, 0, 0, 0>>, len |-> 24]}
    [] text = "10.0.0.0/30" -> {[o |-> <<10, 0, 0, 0>>, len |-> 30]}
    [] text = "10.0.0.4/32" -> {[o |-> <<10, 0, 0, 4>>, len |-> 32]}
    [] text = "10.0.0.1/16" -> {[o |-> <<10, 0, 0, 1>>, len |-> 16]}
    [] text = "10.0.0.0/33" -> {[o |-> <<10, 0, 0, 0>>, len |-> 33]}
    [] OTHER -> {}

RECURSIVE Pow2(_)
Pow2(k) == IF k <= 0 THEN 1 ELSE 2 * Pow2(k - 1)

\* The 32-bit number of a dotted quad.
AddrOf(o) == ((o[1] * 256 + o[2]) * 256 + o[3]) * 256 + o[4]

\* str(network): "a.b.c.d/len"
FormatCidr(addr, len) ==
  ToString(addr \div 16777216) \o "." \o ToString((addr \div 65536) % 256) \o "."
    \o ToString((addr \div 256) % 256) \o "." \o ToString(addr % 256)
    \o "/" \o ToString(len)

\* ipaddress.ip_network(text), strict: {} when it raises ValueError (no such
\* form, an octet above 255, a prefix above 32, host bits set).
ip_network(text) ==
  { [addr |-> AddrOf(c.o), len |-> c.len] : c \in
      { c \in ReadCidr(text) :
          /\ \A i \in 1..4 : c.o[i] <= 255
          /\ c.len <= 32
          /\ AddrOf(c.o) % Pow2(32 - c.len) = 0 } }

\* network.subnets(new_prefix=new_prefix) raises ValueError; a /32 network
\* yields itself before new_prefix is looked at.
SubnetsRaises(net, new_prefix) ==
  net.len # 32 /\ (new_prefix < net.len \/ new_prefix > 32)

\* len(list(network.subnets(new_prefix=new_prefix)))
SubnetsLen(net, new_prefix) ==
  IF net.len = 32 THEN 1 ELSE Pow2(new_prefix - net.len)

\* list(network.subnets(new_prefix=new_prefix))[k]
SubnetAt(net, new_prefix, k) ==
  IF net.len = 32 THEN net
  ELSE [addr |-> net.addr + k * Pow2(32 - new_prefix), len |-> new_prefix]

\* Variant: netnum counts the sub-blocks from 1.
calculate_subnet_cidr_OneBased(base_cidr, newbits, netnum) ==
  IF ip_network(base_cidr) = {} THEN ""
  ELSE LET network == CHOOSE x \in ip_network(base_cidr) : TRUE
           new_prefix == network.len + newbits
       IN IF SubnetsRaises(network, new_prefix) THEN ""
          ELSE IF 0 <= netnum - 1 /\ netnum - 1 < SubnetsLen(network, new_prefix)
                 THEN LET subnet == SubnetAt(network, new_prefix, netnum - 1)
                      IN FormatCidr(subnet.addr, subnet.len)
                 ELSE ""

\* calculate_subnet_cidr: the netnum-th block, or "" (out of range, or except).
calculate_subnet_cidr(base_cidr, newbits, netnum) ==
  IF ip_network(base_cidr) = {} THEN ""
  ELSE LET network == CHOOSE x \in ip_network(base_cidr) : TRUE
           new_prefix == network.len + newbits
       IN IF SubnetsRaises(network, new_prefix) THEN ""
          ELSE IF 0 <= netnum /\ netnum < SubnetsLen(network, new_prefix)
                 THEN LET subnet == SubnetAt(network, new_prefix, netnum)
                      IN FormatCidr(subnet.addr, subnet.len)
                 ELSE ""

\* ------------------------------------------------------------ configuration
\* locals.tf as parse_subnet_config returns it.
subnet_config ==
  [k \in {"App_1", "Db"} |->
     IF k = "App_1"
       THEN [name |-> "snet-app", has_nsg |-> TRUE, newbits |-> 8, netnum |-> 1]
       ELSE [name |-> "snet-db", has_nsg |-> FALSE, newbits |-> 8, netnum |-> 256]]

\* The "Azure Subnet Name" values the client sheet may hold: the name of App_1 and
\* the key Db, or a subnet that locals.tf does not know.
ClientSubnetChoices == { {"snet-app", "Db"}, {"Edge"} }

\* name_to_key.get(s, s): a subnet's name or key gives its key, any other text
\* stays as it is.
NameToKeyIn(conf, s) ==
  IF s \in DOMAIN conf THEN s
  ELSE IF \E k \in DOMAIN conf : conf[k].name = s
    THEN CHOOSE k \in DOMAIN conf : conf[k].name = s
    ELSE s

NameToKey(s) == NameToKeyIn(subnet_config, s)

\* target_keys: the keys of the client sheet's subnets and, with base rules, every
\* key of subnet_config with has_nsg.
\* "GatewaySubnet", as the client sheet spells it, is taken out first.
TargetKeysIn(conf, raw_client_subnets, with_base) ==
  { NameToKeyIn(conf, s) : s \in raw_client_subnets \ {"GatewaySubnet"} }
    \cup (IF with_base THEN { k \in DOMAIN conf : conf[k].has_nsg } ELSE {})

TargetKeysOf(raw_client_subnets, with_base) ==
  TargetKeysIn(subnet_config, raw_client_subnets, with_base)

\* real_name = subnet_config.get(subnet_key, {}).get("name", subnet_key)
RealName(key) == IF key \in DOMAIN subnet_config THEN subnet_config[key].name ELSE key

\* subnet_config.get(key, {}).get("has_nsg", True)
HasNsgOrTrue(key) == IF key \in DOMAIN subnet_config THEN subnet_config[key].has_nsg ELSE TRUE

\* locals.tf with a gateway subnet: under the key GatewaySubnet, or under the
\* key Gateway with the name GatewaySubnet; or without one.
GatewayConfigs ==
  { subnet_config } \cup
  { [k \in (DOMAIN subnet_config) \cup {g} |->
       IF k = g THEN [name |-> "GatewaySubnet", has_nsg |-> TRUE, newbits |-> 8, netnum |-> 0]
       ELSE subnet_config[k]] : g \in {"GatewaySubnet", "Gateway"} }

\* The "Azure Subnet Name" values of a client sheet that may name the gateway subnet.
GatewayClientChoices == SUBSET {"GatewaySubnet", "gatewaysubnet", "Gateway", "snet-app"}

\* project.auto.tfvars as parse_project_tfvars returns it: no file (or no
\* project block), a block without "customer", one with an empty
\* environment_level, a complete one.
ProjectVarsChoices ==
  { [k \in {} |-> ""],
    [k \in {"client_code", "location", "environment_level"} |-> "x"],
    [k \in {"customer", "client_code", "location", "environment_level"} |->
       IF k = "environment_level" THEN "" ELSE "x"],
    [k \in {"customer", "client_code", "location", "environment_level"} |-> "x"] }

\* project.auto.tfvars for the base rules: no project block, or one that holds
\* the list address_space only.
TemplateProjectVars ==
  { [k \in {} |-> ""] } \cup
  { [k \in {"address_space"} |-> <<a>>] : a \in {"10.0.0.0/16", "10.0.0.0/24", "garbage"} }

\* vnet_cidr: project_vars['address_space'][0], or the default.
VnetCidrOf(vars) ==
  IF "address_space" \in DOMAIN vars /\ vars["address_space"] # <<>>
    THEN vars["address_space"][1]
    ELSE DEFAULT_VNET_CIDR

\* calculate_subnet_cidr for the subnet; "" for a key locals.tf does not hold.
CalculatedCidr(key, vars) ==
  IF key \in DOMAIN subnet_config
    THEN calculate_subnet_cidr(VnetCidrOf(vars), subnet_config[key].newbits,
                               subnet_config[key].netnum)
    ELSE ""

\* current_cidr of the merger: if not current_cidr: current_cidr = "ERROR_CIDR_CALC"
CurrentCidrOf(key, vars) ==
  IF CalculatedCidr(key, vars) = "" THEN ERROR_CIDR_CALC ELSE CalculatedCidr(key, vars)

\* get_resource_group_name raises ValueError.
RgNameRaises(vars) ==
  {"customer", "client_code", "location", "environment_level"} \ DOMAIN vars # {}

\* get_nsg_name raises ValueError (env_level is None or empty).
NsgNameRaises(vars) ==
  IF "environment_level" \in DOMAIN vars THEN vars["environment_level"] = "" ELSE TRUE

\* ------------------------------------------------------------ rules
Rule(name, description, priority, direction, access, protocol, src, dst, port) ==
  [name |-> name, description |-> description, priority |-> priority,
   direction |-> direction, access |-> access, protocol |-> protocol,
   source_address_prefix |-> src, source_port_range |-> "*",
   destination_address_prefix |-> dst, destination_port_range |-> port]

\* The rule blocks an existing .auto.tfvars file may hold.
ExistingBlocks ==
  { Rule("existing_rule", "Existing", p, d, "Allow", "Tcp", "*", "*", port) :
      p \in {1000, 1010}, d \in {"Inbound", "Outbound"}, port \in {"443", "80"} }

\* The AzureRule tuples fetch_azure_nsg_rules may return.
AzureRules ==
  { [name |-> "drift1", priority |-> p, direction |-> d, access |-> "Allow",
     protocol |-> "Tcp", source |-> "*", destination |-> "*", dest_port |-> "22"] :
      p \in {1000, 1020}, d \in {"Inbound", "Outbound"} }

\* The rows of the client sheet that name the subnet.
ClientRows ==
  [Priority : PriorityCells, Direction : DirectionCells, Access : {"Allow"},
   Protocol : {"Tcp"}, Source : {"*"}, Destination : {"*"},
   DestinationPort : PortCells, Description : {"Client"}]

\* The rows of the base rules sheet.
BaseRows ==
  [Priority : BasePriorityCells, Direction : {"Inbound", "Outbound"}, Access : {"Allow"},
   Protocol : {"Tcp"}, Source : {"*"}, Destination : {"*"},
   DestinationPort : {"3389"}, Description : {"Base"}]

\* The rows of a base rules sheet that uses the placeholders.
TemplateRows ==
  [Priority : BasePriorityCells, Direction : {"Inbound"}, Access : {"Allow"},
   Protocol : {"Tcp"},
   Source : {"*", "{{CurrentSubnet}}", "{{VNetCIDR}}",
             "{{CurrentSubnet}},{{VNetCIDR}},{{CurrentSubnet}}"},
   Destination : {"{{VNetCIDR}}", "{{CurrentSubnet}}"},
   DestinationPort : {"3389"}, Description : {"Base"}]

\* The rows of the client sheet next to such a base rules sheet.
TemplateClientRows ==
  [Priority : {"NaN", "1000"}, Direction : {"Inbound"}, Access : {"Allow"},
   Protocol : {"Tcp"}, Source : {"*"}, Destination : {"*"},
   DestinationPort : PortCells, Description : {"Client"}]

\* m[k] = v, as a dict assignment.
Put(m, k, v) == [x \in (DOMAIN m) \cup {k} |-> IF x = k THEN v ELSE m[x]]

EmptyMap == [x \in {} |-> 0]

\* ------------------------------------------------------------ state
VARIABLES
  pc,                   \* where merge_nsg_rules is: "loop", "load", "drift", "import",
                        \* "client", "base", "write", "done"
  todo,                 \* target_keys the main loop has not visited yet
  written,              \* subnet keys whose rule file has been written
  subnet_key,           \* the subnet being processed
  project_vars,         \* parse_project_tfvars' result
  base_enabled,         \* df_base is not None (--base-rules given and read)
  client_subnets,       \* the "Azure Subnet Name" values of the client sheet
  tfvars_exists,        \* os.path.exists(tfvars_dir)
  excel_readable,       \* pd.read_excel reads the sheets it is given
  exit_code,            \* the exit code of the command, -1 while it runs
  cidr_args,            \* the arguments of a call of calculate_subnet_cidr
  cidr_result,          \* what the call returned ("?" before it)
  validations,          \* the validator's list of expected rules
  locals_tf,            \* subnet_config as parse_subnet_config returned it
  merged_rules,         \* priority -> rule
  used_priorities_in,
  used_priorities_out,
  prio_counters,        \* [IN |-> n, OUT |-> n]
  n,                    \* rows consumed by the loop of the current stage
  final_list,           \* the sorted list written for the current subnet
  origin,               \* history: priority -> the stage that stored the rule there
  auto,                 \* history: per direction, the priorities auto-allocated, in order
  live_status,          \* history: "none", "skipped", "failed" (the except of the
                        \* drift stage ran), "unavailable" (the fetch caught an
                        \* error and answered []), "fetched"
  outcome,              \* history: what became of the last row ("base_skipped",
                        \* "base_stored"), of the last drift rule ("imported",
                        \* "known", "known_other" when the rule that holds the
                        \* priority has the other direction) or client row ("inserted", "allocated", "noop",
                        \* "conflict"); "none" outside those loops
  base_replaced,        \* history: the rules a base row stored and a later base row replaced
  replay,               \* history of a second run: [run, Q (client rows), R (first result)]
  tfvars_dir,           \* the path of the tfvars folder
  tfvars_files,         \* the *.auto.tfvars files of the folder: name -> what the file holds
  stats,                \* the validator's counts: [ok, missing, total]
  valid_files,          \* the *.auto.tfvars files of the tfvars folder without "_updated"
  existing_file,        \* find_existing_file's answer for the subnet ("" for None)
  new_filename,         \* the file the subnet's rules are written to
  outputs,              \* output file name -> the subnet key that wrote it last
  resolved,             \* history: subnet key -> the existing file it was resolved to
  out_of                \* history: subnet key -> the output file it wrote

vars == <<pc, todo, written, subnet_key, project_vars, base_enabled, client_subnets,
          tfvars_exists, excel_readable, exit_code, cidr_args, cidr_result, validations,
          locals_tf, merged_rules,
          used_priorities_in, used_priorities_out, prio_counters, n, final_list,
          origin, auto, live_status, outcome, base_replaced, replay,
          tfvars_dir, tfvars_files, stats,
          valid_files, existing_file, new_filename, outputs, resolved, out_of>>

\* The file names of a run, which the steps of a subnet's merge leave alone.
folder == <<tfvars_dir, tfvars_files, stats>>
files == <<folder, valid_files, existing_file, new_filename, outputs, resolved, out_of>>

\* What the run is given.
inputs == <<project_vars, base_enabled, client_subnets, tfvars_exists, excel_readable, files,
            cidr_args, cidr_result, validations, locals_tf>>

\* What the steps of a subnet's merge leave alone.
config == <<inputs, exit_code>>

\* The keys the main loop visits.
TargetKeys == TargetKeysOf(client_subnets, base_enabled)

\* client_rules_for_subnet is not empty: a row names the subnet by key or by name.
NamedByClient(key) == key \in client_subnets \/ RealName(key) \in client_subnets
segment == <<merged_rules, used_priorities_in, used_priorities_out, prio_counters, origin, auto>>
history == <<live_status, outcome, base_replaced, replay>>

NoReplay == [run |-> 0, Q |-> <<>>, R |-> EmptyMap]

\* No call of calculate_subnet_cidr on its own, no validation, and locals.tf
\* is subnet_config.
NoCidrCall ==
  /\ cidr_args = [base_cidr |-> "", newbits |-> 0, netnum |-> 0]
  /\ cidr_result = "?"
  /\ validations = <<>>
  /\ locals_tf = subnet_config

\* The file names are left out of the run.
NoFiles ==
  /\ tfvars_dir = <<>>
  /\ tfvars_files = EmptyMap
  /\ stats = [ok |-> 0, missing |-> 0, total |-> 0]
  /\ valid_files = {}
  /\ existing_file = <<>>
  /\ new_filename = <<>>
  /\ outputs = EmptyMap
  /\ resolved = EmptyMap
  /\ out_of = EmptyMap

\* Variant: the counters start above the highest existing priority of [1000, 2000).
InitialCounters_FromMax ==
  LET band == { p \in DOMAIN merged_rules : START_PRIORITY <= p /\ p < 2000 }
      top == IF band = {} THEN START_PRIORITY - PRIORITY_STEP
             ELSE CHOOSE p \in band : \A q \in band : q <= p
  IN [IN |-> top + PRIORITY_STEP, OUT |-> top + PRIORITY_STEP]

\* prio_counters = {"IN": START_PRIORITY, "OUT": START_PRIORITY}
InitialCounters == [IN |-> START_PRIORITY, OUT |-> START_PRIORITY]

Init ==
  /\ pc = "start"
  /\ project_vars \in ProjectVarsChoices
  /\ base_enabled \in BOOLEAN
  /\ client_subnets \in ClientSubnetChoices
  /\ tfvars_exists \in BOOLEAN
  /\ excel_readable \in BOOLEAN
  /\ exit_code = -1
  /\ todo = TargetKeys
  /\ written = {}
  /\ subnet_key = ""
  /\ merged_rules = EmptyMap
  /\ used_priorities_in = {}
  /\ used_priorities_out = {}
  /\ prio_counters = InitialCounters
  /\ n = 0
  /\ final_list = <<>>
  /\ origin = EmptyMap
  /\ auto = [IN |-> <<>>, OUT |-> <<>>]
  /\ live_status = "none"
  /\ outcome = "none"
  /\ base_replaced = {}
  /\ replay = NoReplay
  /\ NoFiles
  /\ NoCidrCall

\* ------------------------------------------------------------ start
\* merge_nsg_rules up to the main loop: without the tfvars folder, or with a sheet
\* that cannot be read, it prints an error and returns; __main__ has nothing after
\* the call, so the command ends with exit code 0.
Start ==
  /\ pc = "start"
  /\ IF tfvars_exists /\ excel_readable
       THEN pc' = "loop" /\ UNCHANGED exit_code
       ELSE pc' = "aborted" /\ exit_code' = 0
  /\ UNCHANGED <<todo, written, subnet_key, inputs, segment, n, final_list, history>>

\* ------------------------------------------------------------ main loop
\* Variant: the map of the previous subnet is kept.
FreshRules_Carried == merged_rules

\* merged_rules: Dict[int, Dict[str, Any]] = {}
FreshRules == EmptyMap

\* for subnet_key in target_keys: a fresh merged_rules for each subnet.
NextSubnet ==
  /\ pc = "loop"
  /\ todo # {}
  /\ \E key \in todo :
       /\ subnet_key' = key
       /\ todo' = todo \ {key}
  /\ merged_rules' = FreshRules
  /\ used_priorities_in' = {}
  /\ used_priorities_out' = {}
  /\ prio_counters' = InitialCounters
  /\ origin' = EmptyMap
  /\ auto' = [IN |-> <<>>, OUT |-> <<>>]
  /\ live_status' = "none"
  /\ outcome' = "none"
  /\ base_replaced' = {}
  /\ final_list' = <<>>
  /\ n' = 0
  /\ pc' = "load"
  /\ UNCHANGED <<written, config, replay>>

\* A rule block of an existing file without a priority line: parse_hcl_rules
\* keeps every block that holds at least one key.
BlocksWithoutPriority ==
  { [name |-> "existing_rule", description |-> "Existing", direction |-> "Inbound",
     access |-> "Allow", protocol |-> "Tcp", source_address_prefix |-> "*",
     source_port_range |-> "*", destination_address_prefix |-> "*",
     destination_port_range |-> "443"] }

\* One turn of: for r in existing_rules_list: merged_rules[r['priority']] = r.
\* r['priority'] of a block without priority raises KeyError, which nothing
\* catches: the command ends with a traceback and exit code 1.
LoadBlock(r) ==
  /\ pc = "load"
  /\ n < MaxExisting
  /\ IF "priority" \in DOMAIN r
       THEN /\ merged_rules' = Put(merged_rules, r.priority, r)
            /\ origin' = Put(origin, r.priority, "existing")
            /\ n' = n + 1
            /\ UNCHANGED <<pc, exit_code>>
       ELSE /\ pc' = "crashed"
            /\ exit_code' = 1
            /\ UNCHANGED <<merged_rules, origin, n>>
  /\ UNCHANGED <<todo, written, subnet_key, inputs, used_priorities_in,
                 used_priorities_out, prio_counters, final_list, auto, history>>

LoadRule == \E r \in ExistingBlocks \cup BlocksWithoutPriority : LoadBlock(r)

\* {r['priority'] for r in merged_rules.values() if "IN" in str(r.get('direction')).upper()}
\* and the same with "OUT".
UsedPriorities(merged, inbound) ==
  { merged[p].priority : p \in { q \in DOMAIN merged :
      IF inbound THEN ContainsIN(UpperStrip(merged[q].direction))
                 ELSE ContainsOUT(UpperStrip(merged[q].direction)) } }

\* Track Used Priorities: the used sets and the counters of the subnet.
TrackUsed ==
  /\ pc = "load"
  /\ used_priorities_in' = UsedPriorities(merged_rules, TRUE)
  /\ used_priorities_out' = UsedPriorities(merged_rules, FALSE)
  /\ prio_counters' = InitialCounters
  /\ n' = 0
  /\ pc' = "drift"
  /\ UNCHANGED <<todo, written, subnet_key, config, merged_rules, final_list,
                 origin, auto, history>>

\* ------------------------------------------------------------ 3. Azure drift
\* if azure_helper and project_vars: ... if subnet_config.get(key, {}).get("has_nsg", True):
DriftConfigured == DOMAIN project_vars # {}

\* The stage is not entered, or the subnet has no NSG: nothing is queried.
DriftSkip ==
  /\ pc = "drift"
  /\ \/ ~DriftConfigured
     \/ /\ DriftConfigured
        /\ ~RgNameRaises(project_vars)
        /\ ~HasNsgOrTrue(subnet_key)
  /\ live_status' = "skipped"
  /\ pc' = "client"
  /\ UNCHANGED <<todo, written, subnet_key, config, segment, n, final_list,
                 outcome, base_replaced, replay>>

\* Variant: the exception leaves the subnet's turn of the main loop.
DriftFail_Abort ==
  /\ pc = "drift"
  /\ DriftConfigured
  /\ \/ RgNameRaises(project_vars)
     \/ HasNsgOrTrue(subnet_key) /\ NsgNameRaises(project_vars)
  /\ live_status' = "failed"
  /\ pc' = IF todo = {} THEN "done" ELSE "loop"
  /\ UNCHANGED <<todo, written, subnet_key, config, segment, n, final_list,
                 outcome, base_replaced, replay>>

\* get_resource_group_name or get_nsg_name raises: except Exception prints a
\* warning and the subnet goes on to the client rules.
DriftFail ==
  /\ pc = "drift"
  /\ DriftConfigured
  /\ \/ RgNameRaises(project_vars)
     \/ HasNsgOrTrue(subnet_key) /\ NsgNameRaises(project_vars)
  /\ live_status' = "failed"
  /\ pc' = "client"
  /\ UNCHANGED <<todo, written, subnet_key, config, segment, n, final_list,
                 outcome, base_replaced, replay>>

\* fetch_azure_nsg_rules: it catches its own errors (no Azure library, no
\* subscription, no login, API error) and returns [] then ("unavailable");
\* otherwise the rules of the NSG ("fetched"), which the import loop reads.
DriftFetch ==
  /\ pc = "drift"
  /\ DriftConfigured
  /\ ~RgNameRaises(project_vars)
  /\ HasNsgOrTrue(subnet_key)
  /\ ~NsgNameRaises(project_vars)
  /\ \E ok \in BOOLEAN :
       IF ok THEN live_status' = "fetched" /\ pc' = "import"
             ELSE live_status' = "unavailable" /\ pc' = "client"
  /\ n' = 0
  /\ UNCHANGED <<todo, written, subnet_key, config, segment, final_list,
                 outcome, base_replaced, replay>>

\* Variant: the drift rule is imported whatever the map holds.
DriftKnown_Never(az, merged) == FALSE

\* Variant: a priority is known only when a rule of the same direction holds it.
DriftKnown_SameDirection(az, merged) ==
  az.priority \in DOMAIN merged /\ merged[az.priority].direction = az.direction

\* if az_rule.priority in merged_rules: continue
DriftKnown(az, merged) == az.priority \in DOMAIN merged

\* rule_dict of the drift import.
DriftRule(az) ==
  Rule(az.name, "Imported from Azure Drift", az.priority, az.direction, az.access,
       az.protocol, az.source, az.destination, az.dest_port)

\* One turn of: for az_rule in azure_rules.
DriftRow(az) ==
  /\ pc = "import"
  /\ n < MaxAzure
  /\ n' = n + 1
  /\ outcome' = IF az.priority \notin DOMAIN merged_rules THEN "imported"
                ELSE IF merged_rules[az.priority].direction = az.direction THEN "known"
                ELSE "known_other"
  /\ IF DriftKnown(az, merged_rules)
       THEN UNCHANGED <<merged_rules, used_priorities_in, used_priorities_out, origin>>
       ELSE /\ merged_rules' = Put(merged_rules, az.priority, DriftRule(az))
            /\ origin' = Put(origin, az.priority, "drift")
            /\ IF ContainsIN(UpperStrip(az.direction))
                 THEN /\ used_priorities_in' = used_priorities_in \cup {az.priority}
                      /\ UNCHANGED used_priorities_out
                 ELSE /\ used_priorities_out' = used_priorities_out \cup {az.priority}
                      /\ UNCHANGED used_priorities_in
  /\ UNCHANGED <<pc, todo, written, subnet_key, config, prio_counters, final_list,
                 auto, live_status, base_replaced, replay>>

DriftImport == \E az \in AzureRules : DriftRow(az)

\* azure_rules is exhausted.
DriftDone ==
  /\ pc = "import"
  /\ pc' = "client"
  /\ n' = 0
  /\ outcome' = "none"
  /\ UNCHANGED <<todo, written, subnet_key, config, segment, final_list,
                 live_status, base_replaced, replay>>

\* ------------------------------------------------------------ 4. client rules
\* dir_short = "IN" if "IN" in raw_dir else "OUT"
DirShort(cell) == IF ContainsIN(UpperStrip(cell)) THEN "IN" ELSE "OUT"

\* Variant: the Priority column is ignored.
HasExplicitPriority_Never(parsed) == FALSE

\* if prio_val: (None and 0 are both false)
HasExplicitPriority(parsed) == parsed # {} /\ parsed # {0}

\* Variant: an explicit priority never conflicts.
PriorityConflict_Never(prio_val, merged) == FALSE

\* Variant: an explicit priority is looked up among the inbound priorities only.
PriorityConflict_InboundOnly(prio_val, merged) == prio_val \in used_priorities_in

\* if prio_val in merged_rules: ... continue
PriorityConflict(prio_val, merged) == prio_val \in DOMAIN merged

\* Variant: the scan looks at the direction's used set only.
RECURSIVE NextFree_TargetSetOnly(_, _, _)
NextFree_TargetSetOnly(c, target_set, keys) ==
  IF c \in target_set
    THEN NextFree_TargetSetOnly(c + PRIORITY_STEP, target_set, keys)
    ELSE c

\* while prio_counters[dir_short] in target_set or prio_counters[dir_short] in merged_rules:
\*     prio_counters[dir_short] += PRIORITY_STEP
RECURSIVE NextFree(_, _, _)
NextFree(c, target_set, keys) ==
  IF c \in target_set \/ c \in keys
    THEN NextFree(c + PRIORITY_STEP, target_set, keys)
    ELSE c

\* Variant: the counter steps back.
AdvanceCounter_Back(prio_val) == prio_val - PRIORITY_STEP

\* prio_counters[dir_short] += PRIORITY_STEP, after prio_val was taken.
AdvanceCounter(prio_val) == prio_val + PRIORITY_STEP

\* The name, f"{token}_{dir_short}_{access}{prio_val}".
RuleName(key, dir_short, access, prio_val) ==
  SubnetToken(key) \o "_" \o dir_short \o "_" \o access \o ToString(prio_val)

\* Variant: the priority field is the Priority cell's number (0 when it has none).
ClientRule_CellPriority(key, row, prio_val) ==
  LET parsed == ParsePriority(row.Priority)
      cell == IF parsed = {} THEN 0 ELSE CHOOSE p \in parsed : TRUE
  IN Rule(RuleName(key, DirShort(row.Direction), ApiGet(UpperStrip(row.Access), "Allow"), prio_val),
          Description100(row.Description), cell,
          ApiGet(UpperStrip(row.Direction), "Inbound"),
          ApiGet(UpperStrip(row.Access), "Allow"),
          ApiGet(UpperStrip(row.Protocol), "Tcp"),
          clean_ip(row.Source), clean_ip(row.Destination), clean_port(row.DestinationPort))

\* The dict stored for a client row.
ClientRule(key, row, prio_val) ==
  Rule(RuleName(key, DirShort(row.Direction), ApiGet(UpperStrip(row.Access), "Allow"), prio_val),
       Description100(row.Description), prio_val,
       ApiGet(UpperStrip(row.Direction), "Inbound"),
       ApiGet(UpperStrip(row.Access), "Allow"),
       ApiGet(UpperStrip(row.Protocol), "Tcp"),
       clean_ip(row.Source), clean_ip(row.Destination), clean_port(row.DestinationPort))

\* The priority a client row ends with: its own, or the next free one.
ResolvePriority(row) ==
  LET parsed == ParsePriority(row.Priority)
      dir_short == DirShort(row.Direction)
      target_set == IF dir_short = "IN" THEN used_priorities_in ELSE used_priorities_out
  IN IF HasExplicitPriority(parsed)
       THEN CHOOSE p \in parsed : TRUE
       ELSE NextFree(prio_counters[dir_short], target_set, DOMAIN merged_rules)

\* The six fields a request is compared on.
SameFields(a, b) ==
  /\ a.direction = b.direction
  /\ a.access = b.access
  /\ a.protocol = b.protocol
  /\ a.source_address_prefix = b.source_address_prefix
  /\ a.destination_address_prefix = b.destination_address_prefix
  /\ a.destination_port_range = b.destination_port_range

\* What becomes of a client row in the current state (history only).
RowOutcome(row) ==
  LET parsed == ParsePriority(row.Priority)
      prio_val == ResolvePriority(row)
  IN IF ~HasExplicitPriority(parsed) THEN "allocated"
     ELSE IF prio_val \notin DOMAIN merged_rules THEN "inserted"
     ELSE IF SameFields(merged_rules[prio_val], ClientRule(subnet_key, row, prio_val))
       THEN "noop"
       ELSE "conflict"

\* One turn of: for _, row in client_rules_for_subnet.iterrows().
ClientRowStep(row) ==
  LET parsed == ParsePriority(row.Priority)
      dir_short == DirShort(row.Direction)
      prio_val == ResolvePriority(row)
  IN /\ pc = "client"
     /\ NamedByClient(subnet_key)
     /\ n < MaxClient
     /\ n' = n + 1
     /\ outcome' = RowOutcome(row)
     /\ IF HasExplicitPriority(parsed) /\ PriorityConflict(prio_val, merged_rules)
          THEN UNCHANGED segment
          ELSE /\ merged_rules' = Put(merged_rules, prio_val, ClientRule(subnet_key, row, prio_val))
               /\ origin' = Put(origin, prio_val, "client")
               /\ IF HasExplicitPriority(parsed)
                    THEN UNCHANGED <<prio_counters, auto>>
                    ELSE /\ prio_counters' =
                              [prio_counters EXCEPT ![dir_short] = AdvanceCounter(prio_val)]
                         /\ auto' = [auto EXCEPT ![dir_short] = Append(@, prio_val)]
               /\ IF dir_short = "IN"
                    THEN /\ used_priorities_in' = used_priorities_in \cup {prio_val}
                         /\ UNCHANGED used_priorities_out
                    ELSE /\ used_priorities_out' = used_priorities_out \cup {prio_val}
                         /\ UNCHANGED used_priorities_in
     /\ UNCHANGED <<pc, todo, written, subnet_key, config, final_list, live_status, base_replaced>>

ClientRow(row) == ClientRowStep(row) /\ UNCHANGED replay

MergeClient == \E row \in ClientRows : ClientRow(row)

\* The client rows of the subnet are exhausted.
ClientDone ==
  /\ pc = "client"
  /\ NamedByClient(subnet_key) => n >= 1
  /\ pc' = "base"
  /\ n' = 0
  /\ outcome' = "none"
  /\ UNCHANGED <<todo, written, subnet_key, config, segment, final_list,
                 live_status, base_replaced, replay>>

\* ------------------------------------------------------------ 6. sort and write
\* "in" in str(direction).lower()
ContainsInLower(direction) == direction \in {"Inbound", "inbound", "in", "In"}

\* Variant: the key is the priority alone.
SortsBefore_PriorityOnly(a, b) == a.priority < b.priority

\* The sort key (0 if inbound else 1, priority), compared as a tuple.
SortsBefore(a, b) ==
  LET ka == IF ContainsInLower(a.direction) THEN 0 ELSE 1
      kb == IF ContainsInLower(b.direction) THEN 0 ELSE 1
  IN ka < kb \/ (ka = kb /\ a.priority < b.priority)

\* list(merged_rules.values()) sorted by the key.
RECURSIVE SortedRules(_, _)
SortedRules(merged, keys) ==
  IF keys = {} THEN <<>>
  ELSE LET first == CHOOSE p \in keys :
                      \A q \in keys \ {p} : SortsBefore(merged[p], merged[q])
       IN <<merged[first]>> \o SortedRules(merged, keys \ {first})

\* 6. Sort and Write, then the main loop's next turn (or its end).
SortAndWrite ==
  /\ final_list' = SortedRules(merged_rules, DOMAIN merged_rules)
  /\ written' = written \cup {subnet_key}
  /\ pc' = IF todo = {} THEN "done" ELSE "loop"
  /\ exit_code' = IF todo = {} THEN 0 ELSE exit_code
  /\ n' = 0
  /\ outcome' = "none"
  /\ UNCHANGED <<todo, subnet_key, inputs, segment, live_status, base_replaced, replay>>

\* ------------------------------------------------------------ 5. base rules
\* if df_base is not None: fails, the stage is left out and the file is written.
BaseSkip ==
  /\ pc = "base"
  /\ ~base_enabled
  /\ SortAndWrite

\* vnet_cidr and, inside the stage, current_cidr.
vnet_cidr == VnetCidrOf(project_vars)
current_cidr == CurrentCidrOf(subnet_key, project_vars)

\* The dict stored for a base row.
BaseRule(key, row, prio_val) ==
  Rule(RuleName(key, DirShort(row.Direction), ApiGet(UpperStrip(row.Access), "Allow"), prio_val),
       Description100(row.Description), prio_val,
       ApiGet(UpperStrip(row.Direction), "Inbound"),
       ApiGet(UpperStrip(row.Access), "Allow"),
       ApiGet(UpperStrip(row.Protocol), "Tcp"),
       ReplacePlaceholders(clean_ip(row.Source), current_cidr, vnet_cidr),
       ReplacePlaceholders(clean_ip(row.Destination), current_cidr, vnet_cidr),
       clean_port(row.DestinationPort))

\* Variant: a base rule keeps away from a priority in use (safe mode).
StoreBaseRule_KeepExisting(merged, prio_val, rule) ==
  IF prio_val \in DOMAIN merged THEN merged ELSE Put(merged, prio_val, rule)

\* merged_rules[prio_val] = {...}: whatever was there is overwritten.
StoreBaseRule(merged, prio_val, rule) == Put(merged, prio_val, rule)

\* Variant: a row without a priority is stored at priority 0.
BasePriority_DefaultZero(cell) ==
  IF ParsePriority(cell) = {} THEN {0} ELSE ParsePriority(cell)

\* try: prio_val = int(float(row["Priority"])); {} when it raises (continue).
BasePriority(cell) == ParsePriority(cell)

\* One turn of: for _, row in df_base.iterrows().
BaseRow(row) ==
  LET parsed == BasePriority(row.Priority)
  IN /\ pc = "base"
     /\ base_enabled
     /\ n < MaxBase
     /\ n' = n + 1
     /\ outcome' = IF parsed = {} THEN "base_skipped" ELSE "base_stored"
     /\ IF parsed = {}
          THEN UNCHANGED <<segment, base_replaced>>
          ELSE LET prio_val == CHOOSE p \in parsed : TRUE
                   rule == BaseRule(subnet_key, row, prio_val)
                   before == IF prio_val \in DOMAIN origin THEN origin[prio_val] ELSE "free"
               IN /\ merged_rules' = StoreBaseRule(merged_rules, prio_val, rule)
                  /\ origin' = Put(origin, prio_val, "base")
                  /\ base_replaced' =
                       IF before = "base" /\ merged_rules[prio_val] # rule
                         THEN base_replaced \cup {merged_rules[prio_val]}
                         ELSE base_replaced
                  /\ UNCHANGED <<used_priorities_in, used_priorities_out, prio_counters, auto>>
     /\ UNCHANGED <<pc, todo, written, subnet_key, config, final_list, live_status,
                    replay>>

MergeBase == \E row \in BaseRows : BaseRow(row)

MergeTemplate == \E row \in TemplateRows : BaseRow(row)

\* df_base is exhausted: the file is written.
BaseDone ==
  /\ pc = "base"
  /\ base_enabled
  /\ SortAndWrite

\* The subnet's file has just been written.
AfterWrite == pc \in {"loop", "done"} /\ subnet_key \in written

Next ==
  \/ Start
  \/ NextSubnet
  \/ LoadRule
  \/ TrackUsed
  \/ DriftSkip
  \/ DriftFail
  \/ DriftFetch
  \/ DriftImport
  \/ DriftDone
  \/ MergeClient
  \/ ClientDone
  \/ BaseSkip
  \/ MergeBase
  \/ BaseDone

Spec == Init /\ [][Next]_vars

\* ------------------------------------------------------------ base rules with placeholders
\* The run with a base rules sheet that uses the placeholders: no existing file,
\* no Azure source.
InitTemplate ==
  /\ pc = "start"
  /\ project_vars \in TemplateProjectVars
  /\ base_enabled = TRUE
  /\ client_subnets \in {{"Db"}, {"Edge"}}
  /\ tfvars_exists = TRUE
  /\ excel_readable = TRUE
  /\ exit_code = -1
  /\ todo = TargetKeys
  /\ written = {}
  /\ subnet_key = ""
  /\ merged_rules = EmptyMap
  /\ used_priorities_in = {}
  /\ used_priorities_out = {}
  /\ prio_counters = InitialCounters
  /\ n = 0
  /\ final_list = <<>>
  /\ origin = EmptyMap
  /\ auto = [IN |-> <<>>, OUT |-> <<>>]
  /\ live_status = "none"
  /\ outcome = "none"
  /\ base_replaced = {}
  /\ replay = NoReplay
  /\ NoFiles
  /\ NoCidrCall

TemplateClient == \E row \in TemplateClientRows : ClientRow(row)

NextTemplate ==
  \/ Start
  \/ NextSubnet
  \/ TrackUsed
  \/ DriftSkip
  \/ DriftFail
  \/ TemplateClient
  \/ ClientDone
  \/ MergeTemplate
  \/ BaseDone

SpecTemplate == InitTemplate /\ [][NextTemplate]_vars

\* ------------------------------------------------------------ a second run
\* The run again, on its own output: one subnet, no Azure source, no base rules;
\* the first run's client rows are recorded and the second run reads them again.
InitIdem ==
  /\ pc = "loop"
  /\ todo = {"App_1"}
  /\ written = {}
  /\ subnet_key = ""
  /\ project_vars = [k \in {} |-> ""]
  /\ base_enabled = FALSE
  /\ client_subnets = {"snet-app"}
  /\ tfvars_exists = TRUE
  /\ excel_readable = TRUE
  /\ exit_code = -1
  /\ merged_rules = EmptyMap
  /\ used_priorities_in = {}
  /\ used_priorities_out = {}
  /\ prio_counters = InitialCounters
  /\ n = 0
  /\ final_list = <<>>
  /\ origin = EmptyMap
  /\ auto = [IN |-> <<>>, OUT |-> <<>>]
  /\ live_status = "none"
  /\ outcome = "none"
  /\ base_replaced = {}
  /\ replay = [run |-> 1, Q |-> <<>>, R |-> EmptyMap]
  /\ NoFiles
  /\ NoCidrCall

\* for r in existing_rules_list: merged_rules[r['priority']] = r, for a whole list.
RECURSIVE SeedFrom(_)
SeedFrom(list) ==
  IF list = <<>> THEN EmptyMap
  ELSE LET r == list[Len(list)]
       IN Put(SeedFrom(SubSeq(list, 1, Len(list) - 1)), r.priority, r)

\* A client row of the first run.
RecordClient ==
  /\ replay.run = 1
  /\ \E row \in ClientRows :
       /\ ClientRowStep(row)
       /\ replay' = [replay EXCEPT !.Q = Append(@, row)]

\* The same client row, read by the second run.
ReplayClient ==
  /\ replay.run = 2
  /\ n < Len(replay.Q)
  /\ ClientRowStep(replay.Q[n + 1])
  /\ UNCHANGED replay

\* The client sheet is exhausted (the second run has read every recorded row).
ReplayDone ==
  /\ replay.run = 2 => n = Len(replay.Q)
  /\ ClientDone

\* merge_nsg_rules is called again with the rules it wrote as the existing rules
\* (no value of the vocabulary holds a quote, a brace or an equals sign, so
\* parse_hcl_rules reads back each block format_rule wrote, field for field).
Rerun ==
  /\ pc = "done"
  /\ replay.run = 1
  /\ replay' = [run |-> 2, Q |-> replay.Q, R |-> merged_rules]
  /\ merged_rules' = SeedFrom(final_list)
  /\ origin' = [p \in DOMAIN SeedFrom(final_list) |-> "existing"]
  /\ used_priorities_in' = {}
  /\ used_priorities_out' = {}
  /\ prio_counters' = InitialCounters
  /\ auto' = [IN |-> <<>>, OUT |-> <<>>]
  /\ live_status' = "none"
  /\ outcome' = "none"
  /\ base_replaced' = {}
  /\ final_list' = <<>>
  /\ n' = MaxExisting
  /\ pc' = "load"
  /\ UNCHANGED <<todo, written, subnet_key, config>>

NextIdem ==
  \/ NextSubnet
  \/ LoadRule
  \/ TrackUsed
  \/ DriftSkip
  \/ RecordClient
  \/ ReplayClient
  \/ ReplayDone
  \/ BaseSkip
  \/ Rerun

SpecIdem == InitIdem /\ [][NextIdem]_vars

\* ------------------------------------------------------------ file names
\* Texts as sequences of characters, for the name arithmetic of the file stage.
OUTPUT_SUFFIX == <<"_", "u", "p", "d", "a", "t", "e", "d">>

\* How many subnet keys a run of the file stage targets.
MaxTargets == 2

\* The subnet keys and the files of the tfvars folder the file stage is run on.
FileKeys ==
  { <<"A", "p", "p">>,
    <<"A", "p", "p", "1">>,
    <<"A", "p", "p", "_", "1">>,
    <<"D", "b">> }

FileNames ==
  { <<"n", "s", "g", "_", "a", "p", "p", "1", ".", "a", "u", "t", "o", ".", "t", "f", "v", "a", "r", "s">>,
    <<"n", "s", "g", "_", "d", "b", ".", "a", "u", "t", "o", ".", "t", "f", "v", "a", "r", "s">>,
    <<"a", "p", "p", ".", "a", "u", "t", "o", ".", "t", "f", "v", "a", "r", "s">> }

\* The folder may also hold the output of an earlier run.
FolderNames ==
  FileNames \cup
  { <<"a", "p", "p", "_", "u", "p", "d", "a", "t", "e", "d", ".", "a", "u", "t", "o", ".", "t", "f", "v", "a", "r", "s">> }

\* os.path.join(repo_root, "tfvars"), with its separator: the repository may be
\* checked out in any folder.
TfvarsDirs ==
  { <<"r", "e", "p", "o", "/", "t", "f", "v", "a", "r", "s", "/">>,
    <<"r", "e", "p", "o", "_", "u", "p", "d", "a", "t", "e", "d", "/", "t", "f", "v", "a", "r", "s", "/">> }

\* What a file of the folder holds: the rules of the subnet written to it by
\* this run (<<>> while it holds what it held before the run), and whether the
\* file was there before the run.
Untouched == [rules_of |-> <<>>, source |-> TRUE]

\* [^a-zA-Z0-9] on the characters of the vocabulary.
NonAlnum(c) == c \in {"_", ".", "-", " "}

\* str.lower()
RECURSIVE Lower(_)
Lower(t) == IF t = <<>> THEN <<>> ELSE <<LowerChar(Head(t))>> \o Lower(Tail(t))

\* RE_ALPHANUMERIC.sub("", t)
RECURSIVE StripNonAlnum(_)
StripNonAlnum(t) ==
  IF t = <<>> THEN <<>>
  ELSE IF NonAlnum(Head(t)) THEN StripNonAlnum(Tail(t))
  ELSE <<Head(t)>> \o StripNonAlnum(Tail(t))

\* t.startswith(pat)
StartsWith(t, pat) == Len(pat) <= Len(t) /\ SubSeq(t, 1, Len(pat)) = pat

\* pat in t
RECURSIVE Contains(_, _)
Contains(t, pat) ==
  \/ StartsWith(t, pat)
  \/ t # <<>> /\ Contains(Tail(t), pat)

\* t.replace(pat, "")
RECURSIVE Remove(_, _)
Remove(t, pat) ==
  IF t = <<>> THEN <<>>
  ELSE IF StartsWith(t, pat) THEN Remove(SubSeq(t, Len(pat) + 1, Len(t)), pat)
  ELSE <<Head(t)>> \o Remove(Tail(t), pat)

\* The index of the last "." of t (0 when there is none).
LastDot(t) ==
  IF \E i \in 1..Len(t) : t[i] = "."
    THEN CHOOSE i \in 1..Len(t) : t[i] = "." /\ \A j \in (i + 1)..Len(t) : t[j] # "."
    ELSE 0

\* os.path.splitext(t)[0]
SplitExtRoot(t) == IF LastDot(t) > 1 THEN SubSeq(t, 1, LastDot(t) - 1) ELSE t

\* safe_name = RE_ALPHANUMERIC.sub("", str(subnet_name)).lower()
SafeName(key) == Lower(StripNonAlnum(key))

\* clean_filename = filename.replace(OUTPUT_SUFFIX, "").replace("_", "").replace(".", "")
CleanFilename(file) == Remove(Remove(Remove(Lower(file), OUTPUT_SUFFIX), <<"_">>), <<".">>)

\* if safe_name in clean_filename
FileMatches(key, file) == Contains(CleanFilename(file), SafeName(key))

\* find_existing_file: the first file of valid_files that matches, in the order
\* glob listed them (any order), or None (<<>>).
find_existing_file(key, listing) ==
  IF \E f \in listing : FileMatches(key, f)
    THEN { f \in listing : FileMatches(key, f) }
    ELSE { <<>> }

\* new_filename of the subnet: "<name>_updated.auto.tfvars" next to the existing
\* file, "nsg_<safe name>.auto.tfvars" for a new one.
NewFilename(key, existing) ==
  IF existing # <<>>
    THEN Remove(SplitExtRoot(existing), <<".", "a", "u", "t", "o">>) \o OUTPUT_SUFFIX \o <<".", "a", "u", "t", "o", ".", "t", "f", "v", "a", "r", "s">>
    ELSE <<"n", "s", "g", "_">> \o SafeName(key) \o <<".", "a", "u", "t", "o", ".", "t", "f", "v", "a", "r", "s">>

\* valid_files = [f for f in all_files if OUTPUT_SUFFIX not in f], where f is
\* the path glob returned: the folder's path followed by the file's name.
ValidFiles(dir, all_files) == { f \in all_files : ~Contains(dir \o f, OUTPUT_SUFFIX) }

\* A run of the file stage: the files of the folder and the target keys.
InitFiles ==
  /\ pc = "loop"
  /\ todo \in { K \in SUBSET FileKeys : K # {} /\ Cardinality(K) <= MaxTargets }
  /\ written = {}
  /\ subnet_key = <<>>
  /\ project_vars = [k \in {} |-> ""]
  /\ base_enabled = FALSE
  /\ client_subnets = {}
  /\ tfvars_exists = TRUE
  /\ excel_readable = TRUE
  /\ exit_code = -1
  /\ merged_rules = EmptyMap
  /\ used_priorities_in = {}
  /\ used_priorities_out = {}
  /\ prio_counters = InitialCounters
  /\ n = 0
  /\ final_list = <<>>
  /\ origin = EmptyMap
  /\ auto = [IN |-> <<>>, OUT |-> <<>>]
  /\ live_status = "none"
  /\ outcome = "none"
  /\ base_replaced = {}
  /\ replay = NoReplay
  /\ tfvars_dir \in TfvarsDirs
  /\ \E present \in SUBSET FolderNames : tfvars_files = [f \in present |-> Untouched]
  /\ stats = [ok |-> 0, missing |-> 0, total |-> 0]
  /\ valid_files = ValidFiles(tfvars_dir, DOMAIN tfvars_files)
  /\ existing_file = <<>>
  /\ new_filename = <<>>
  /\ outputs = EmptyMap
  /\ resolved = EmptyMap
  /\ out_of = EmptyMap
  /\ NoCidrCall

\* What the file stage leaves alone.
rules == <<project_vars, base_enabled, client_subnets, tfvars_exists, excel_readable,
           exit_code, cidr_args, cidr_result, validations, locals_tf, merged_rules,
           used_priorities_in, used_priorities_out,
           prio_counters, n, final_list, origin, auto, live_status, outcome,
           base_replaced, replay, tfvars_dir, stats>>

\* 1. Identify File, for the next subnet of the main loop.
IdentifyFile ==
  /\ pc = "loop"
  /\ todo # {}
  /\ \E key \in todo :
       /\ subnet_key' = key
       /\ todo' = todo \ {key}
       /\ \E f \in find_existing_file(key, valid_files) :
            /\ existing_file' = f
            /\ new_filename' = NewFilename(key, f)
            /\ resolved' = Put(resolved, key, f)
  /\ pc' = "write"
  /\ UNCHANGED <<written, rules, tfvars_files, valid_files, outputs, out_of>>

\* with open(new_filename, "w"): the subnet's rules replace what the file held.
WriteFile ==
  /\ pc = "write"
  /\ outputs' = Put(outputs, new_filename, subnet_key)
  /\ tfvars_files' =
       Put(tfvars_files, new_filename,
           [rules_of |-> subnet_key,
            source |-> new_filename \in DOMAIN tfvars_files /\ tfvars_files[new_filename].source])
  /\ out_of' = Put(out_of, subnet_key, new_filename)
  /\ written' = written \cup {subnet_key}
  /\ pc' = IF todo = {} THEN "done" ELSE "loop"
  /\ UNCHANGED <<todo, subnet_key, rules, valid_files, existing_file, new_filename, resolved>>

NextFiles ==
  \/ IdentifyFile
  \/ WriteFile

SpecFiles == InitFiles /\ [][NextFiles]_vars

\* ------------------------------------------------------------ the validator's expected base rules
\* str(val).strip().capitalize(): the first character in upper case, the
\* others in lower case.
Capitalize(val) ==
  LET text == StripText(val)
  IN IF Len(text) = 0 THEN ""
     ELSE UpperChar(SubSeq(text, 1, 1)) \o LowerText(SubSeq(text, 2, Len(text)))

\* val = str(val).strip().capitalize(); "*" for ANY and *, else val.
normalize_protocol(val) ==
  IF UpperText(Capitalize(val)) \in {"ANY", "*"} THEN "*" ELSE Capitalize(val)

\* val if val in ["Allow", "Deny"] else "Allow"
normalize_access(val) ==
  IF Capitalize(val) \in {"Allow", "Deny"} THEN Capitalize(val) ELSE "Allow"

\* "IN" in val -> Inbound, "OUT" in val -> Outbound, else Inbound.
normalize_direction(val) ==
  IF ContainsIN(UpperStrip(val)) THEN "Inbound"
  ELSE IF ContainsOUT(UpperStrip(val)) THEN "Outbound"
  ELSE "Inbound"

\* validate, B. Base Rules: the keys with has_nsg = true.
ValidatorTargetKeys == { k \in DOMAIN subnet_config : subnet_config[k].has_nsg }

\* The validator's current_cidr: what calculate_subnet_cidr returned, as it is.
ValidatorCidrOf(key, pvars) == CalculatedCidr(key, pvars)

\* The expected rule of a base row.
ExpectedBaseRule(key, row, pvars) ==
  [subnet_key |-> key,
   direction |-> normalize_direction(row.Direction),
   access |-> normalize_access(row.Access),
   protocol |-> normalize_protocol(row.Protocol),
   source |-> ReplacePlaceholders(clean_ip(row.Source), ValidatorCidrOf(key, pvars),
                                  VnetCidrOf(pvars)),
   destination |-> ReplacePlaceholders(clean_ip(row.Destination), ValidatorCidrOf(key, pvars),
                                       VnetCidrOf(pvars)),
   dest_port |-> clean_port(row.DestinationPort),
   desc |-> "[Base] " \o row.Description,
   origin |-> "Base Rules"]

\* What the building of the list leaves alone.
merge == <<written, project_vars, base_enabled, client_subnets, tfvars_exists, excel_readable,
           exit_code, segment, final_list, history, files, cidr_args, cidr_result, locals_tf>>

\* validate, with a base rules sheet and no client sheet, at "B. Base Rules".
InitValidate ==
  /\ pc = "v_keys"
  /\ project_vars \in TemplateProjectVars
  /\ base_enabled = TRUE
  /\ client_subnets = {}
  /\ tfvars_exists = TRUE
  /\ excel_readable = TRUE
  /\ exit_code = -1
  /\ todo = ValidatorTargetKeys
  /\ written = {}
  /\ subnet_key = ""
  /\ merged_rules = EmptyMap
  /\ used_priorities_in = {}
  /\ used_priorities_out = {}
  /\ prio_counters = InitialCounters
  /\ n = 0
  /\ final_list = <<>>
  /\ origin = EmptyMap
  /\ auto = [IN |-> <<>>, OUT |-> <<>>]
  /\ live_status = "none"
  /\ outcome = "none"
  /\ base_replaced = {}
  /\ replay = NoReplay
  /\ NoFiles
  /\ NoCidrCall

\* for key in target_keys
ValidateKey ==
  /\ pc = "v_keys"
  /\ \E key \in todo :
       /\ subnet_key' = key
       /\ todo' = todo \ {key}
  /\ n' = 0
  /\ pc' = "v_rows"
  /\ UNCHANGED <<merge, validations>>

\* One turn of: for row in base_rules: validations.append(rule)
ValidateBaseRow(row) ==
  /\ pc = "v_rows"
  /\ n < MaxBase
  /\ n' = n + 1
  /\ validations' = Append(validations, ExpectedBaseRule(subnet_key, row, project_vars))
  /\ UNCHANGED <<pc, todo, subnet_key, merge>>

ValidateBase == \E row \in TemplateRows : ValidateBaseRow(row)

\* base_rules is exhausted (if base_rules: it holds a row at least).
ValidateKeyDone ==
  /\ pc = "v_rows"
  /\ n >= 1
  /\ n' = 0
  /\ pc' = "v_keys"
  /\ UNCHANGED <<todo, subnet_key, merge, validations>>

NextValidate ==
  \/ ValidateKey
  \/ ValidateBase
  \/ ValidateKeyDone

SpecValidate == InitValidate /\ [][NextValidate]_vars

\* ------------------------------------------------------------ the validator's verdict
\* How many expected rules a validation holds, and how many rules a file.
MaxExpected == 2
MaxFileRules == 1

\* The subnet keys of the expected rules and the files of the folder.
CheckKeys == { <<"A", "p", "p">>, <<"A", "p", "p", "1">> }

CheckFileNames ==
  { <<"n", "s", "g", "_", "a", "p", "p", ".", "a", "u", "t", "o", ".", "t", "f", "v", "a", "r", "s">>,
    <<"n", "s", "g", "_", "a", "p", "p", "1", ".", "a", "u", "t", "o", ".", "t", "f", "v", "a", "r", "s">> }

\* The expected rules "A. Client Rules" builds from the rows of the client sheet.
ExpectedRules ==
  [subnet_key : CheckKeys, direction : {"Inbound", "Outbound"}, access : {"Allow"},
   protocol : {"Tcp"}, source : {"*"}, destination : {"*"}, dest_port : {"443"},
   desc : {"Client"}, origin : {"Client Excel"}]

\* The rules a file of the folder may hold.
FileRules ==
  { Rule("rule" \o ToString(p), "Written " \o ToString(p), p, d, "Allow", "Tcp", "*", "*", "443") :
      p \in {1000, 1010}, d \in {"Inbound", "Outbound"} }

\* The sequences over S of length up to k.
RECURSIVE SeqsUpTo(_, _)
SeqsUpTo(S, k) ==
  IF k = 0 THEN { <<>> }
  ELSE SeqsUpTo(S, k - 1) \cup { Append(s, x) : s \in { t \in SeqsUpTo(S, k - 1) : Len(t) = k - 1 }, x \in S }

\* text.split(','), as a set.
RECURSIVE SplitSet(_)
SplitSet(text) ==
  IF ~InText(",", text) THEN {text}
  ELSE LET i == CHOOSE i \in 1..Len(text) :
                  SubSeq(text, i, i) = "," /\ \A j \in 1..(i - 1) : SubSeq(text, j, j) # ","
       IN {SubSeq(text, 1, i - 1)} \cup SplitSet(SubSeq(text, i + 1, Len(text)))

\* actual.get(field), None as "".
Get(actual, field) == IF field \in DOMAIN actual THEN actual[field] ELSE ""

\* set(str(raw).replace(" ", "").split(',')), {"*"} for None.
ActualSet(actual, field) ==
  IF Get(actual, field) = "" THEN {"*"}
  ELSE SplitSet(Replace(Get(actual, field), " ", ""))

\* if "*" in e and "*" in a: pass / elif e != a: return False
SetsAgree(e, a) == ("*" \in e /\ "*" \in a) \/ e = a

\* rules_match: direction, access, protocol, source, destination, destination port.
rules_match(expected, actual) ==
  /\ expected.direction = Get(actual, "direction")
  /\ expected.access = Get(actual, "access")
  /\ expected.protocol = (IF "protocol" \in DOMAIN actual THEN actual.protocol ELSE "*")
  /\ SetsAgree(SplitSet(expected.source), ActualSet(actual, "source_address_prefix"))
  /\ SetsAgree(SplitSet(expected.destination), ActualSet(actual, "destination_address_prefix"))
  /\ SetsAgree(SplitSet(expected.dest_port), ActualSet(actual, "destination_port_range"))

\* clean_filename = filename.replace(".auto.tfvars", "").replace("_", "").replace(".", "")
ValidatorCleanFilename(file) ==
  Remove(Remove(Remove(Lower(file),
                       <<".", "a", "u", "t", "o", ".", "t", "f", "v", "a", "r", "s">>),
                <<"_">>), <<".">>)

\* The validator's find_existing_file: the first file without "_updated" whose
\* cleaned name holds safe_name, in the order glob listed them; None (<<>>).
validator_find_existing_file(key, all_files) ==
  LET matching == { f \in all_files :
                      /\ ~Contains(tfvars_dir \o f, OUTPUT_SUFFIX)
                      /\ Contains(ValidatorCleanFilename(f), SafeName(key)) }
  IN IF matching = {} THEN { <<>> } ELSE matching

\* What the validation leaves alone.
checked == <<todo, written, subnet_key, project_vars, base_enabled, client_subnets,
             tfvars_exists, excel_readable, segment, final_list, history,
             cidr_args, cidr_result, validations, locals_tf, tfvars_dir, tfvars_files,
             valid_files, existing_file, new_filename, outputs, out_of>>

\* validate at "5. Execute Validation": the expected rules are built, the
\* folder holds its files.
InitCheck ==
  /\ pc = "v_check"
  /\ validations \in SeqsUpTo(ExpectedRules, MaxExpected)
  /\ tfvars_dir = <<"t", "f", "v", "a", "r", "s", "/">>
  /\ \E present \in SUBSET CheckFileNames :
       tfvars_files \in [present -> SeqsUpTo(FileRules, MaxFileRules)]
  /\ stats = [ok |-> 0, missing |-> 0, total |-> 0]
  /\ resolved = EmptyMap
  /\ exit_code = -1
  /\ n = 0
  /\ todo = {}
  /\ written = {}
  /\ subnet_key = ""
  /\ project_vars = [k \in {} |-> ""]
  /\ base_enabled = FALSE
  /\ client_subnets = {}
  /\ tfvars_exists = TRUE
  /\ excel_readable = TRUE
  /\ merged_rules = EmptyMap
  /\ used_priorities_in = {}
  /\ used_priorities_out = {}
  /\ prio_counters = InitialCounters
  /\ final_list = <<>>
  /\ origin = EmptyMap
  /\ auto = [IN |-> <<>>, OUT |-> <<>>]
  /\ live_status = "none"
  /\ outcome = "none"
  /\ base_replaced = {}
  /\ replay = NoReplay
  /\ valid_files = {}
  /\ existing_file = <<>>
  /\ new_filename = <<>>
  /\ outputs = EmptyMap
  /\ out_of = EmptyMap
  /\ cidr_args = [base_cidr |-> "", newbits |-> 0, netnum |-> 0]
  /\ cidr_result = "?"
  /\ locals_tf = subnet_config

\* The rules of the file, [] for a missing one.
RulesOf(file) == IF file = <<>> THEN <<>> ELSE tfvars_files[file]

\* One turn of: for expected in validations. file_cache (resolved) keeps the
\* file of a key once it is looked up.
CheckExpected ==
  /\ pc = "v_check"
  /\ n < Len(validations)
  /\ LET expected == validations[n + 1]
         key == expected.subnet_key
     IN \E file \in (IF key \in DOMAIN resolved THEN {resolved[key]}
                     ELSE validator_find_existing_file(key, DOMAIN tfvars_files)) :
          /\ resolved' = Put(resolved, key, file)
          /\ stats' =
               IF /\ RulesOf(file) # <<>>
                  /\ \E i \in 1..Len(RulesOf(file)) : rules_match(expected, RulesOf(file)[i])
                 THEN [stats EXCEPT !.total = @ + 1, !.ok = @ + 1]
                 ELSE [stats EXCEPT !.total = @ + 1, !.missing = @ + 1]
  /\ n' = n + 1
  /\ UNCHANGED <<pc, exit_code, checked>>

\* 6. Summary: sys.exit(1) if stats['missing'] > 0 else sys.exit(0)
CheckExit ==
  /\ pc = "v_check"
  /\ n = Len(validations)
  /\ exit_code' = IF stats.missing > 0 THEN 1 ELSE 0
  /\ pc' = "v_done"
  /\ UNCHANGED <<n, stats, resolved, checked>>

NextCheck ==
  \/ CheckExpected
  \/ CheckExit

SpecCheck == InitCheck /\ [][NextCheck]_vars

\* ------------------------------------------------------------ a request, merged and then validated
\* The request rows both programs read: cells inside and outside the known
\* vocabularies.
AgreeRows ==
  [Priority : {"NaN", "1000"}, Direction : RequestDirectionCells, Access : AccessCells,
   Protocol : ProtocolCells, Source : {"*", " 10.0.0.1, 10.0.0.2"}, Destination : {"Any"},
   DestinationPort : {"443", "80.443"}, Description : {"Client"}]

\* merge_nsg_rules for one new subnet named by the sheet, without Azure source
\* and without base rules; the rows it reads are recorded for the validator.
InitAgree ==
  /\ pc = "loop"
  /\ todo = {"App_1"}
  /\ written = {}
  /\ subnet_key = ""
  /\ project_vars = [k \in {} |-> ""]
  /\ base_enabled = FALSE
  /\ client_subnets = {"snet-app"}
  /\ tfvars_exists = TRUE
  /\ excel_readable = TRUE
  /\ exit_code = -1
  /\ merged_rules = EmptyMap
  /\ used_priorities_in = {}
  /\ used_priorities_out = {}
  /\ prio_counters = InitialCounters
  /\ n = 0
  /\ final_list = <<>>
  /\ origin = EmptyMap
  /\ auto = [IN |-> <<>>, OUT |-> <<>>]
  /\ live_status = "none"
  /\ outcome = "none"
  /\ base_replaced = {}
  /\ replay = NoReplay
  /\ NoFiles
  /\ NoCidrCall

\* A row of the request sheet, read by the merger.
AgreeClient ==
  /\ Len(replay.Q) < MaxRequests
  /\ \E row \in AgreeRows :
       /\ ClientRowStep(row)
       /\ replay' = [replay EXCEPT !.Q = Append(@, row)]

\* The rows of the sheet are exhausted.
AgreeClientDone ==
  /\ Len(replay.Q) = MaxRequests
  /\ ClientDone

\* What the validator leaves alone.
agreed == <<todo, written, subnet_key, project_vars, base_enabled, client_subnets,
            tfvars_exists, excel_readable, segment, final_list, history, cidr_args,
            cidr_result, locals_tf, tfvars_dir, tfvars_files, valid_files, existing_file,
            new_filename, outputs, resolved, out_of>>

\* validator.py is run on the same sheet, after the merger has written the file.
ValidatorStart ==
  /\ pc = "done"
  /\ pc' = "v_build"
  /\ n' = 0
  /\ exit_code' = -1
  /\ UNCHANGED <<validations, stats, agreed>>

\* The expected rule of a client row (validate, A. Client Rules).
ExpectedClientRule(subnet_name, row) ==
  [subnet_key |-> NameToKey(subnet_name),
   direction |-> normalize_direction(row.Direction),
   access |-> normalize_access(row.Access),
   protocol |-> normalize_protocol(row.Protocol),
   source |-> clean_ip(row.Source),
   destination |-> clean_ip(row.Destination),
   dest_port |-> clean_port(row.DestinationPort),
   desc |-> row.Description,
   origin |-> "Client Excel"]

\* One turn of: for row in client_rules.
ExpectClient ==
  /\ pc = "v_build"
  /\ n < Len(replay.Q)
  /\ \E subnet_name \in client_subnets :
       validations' = Append(validations, ExpectedClientRule(subnet_name, replay.Q[n + 1]))
  /\ n' = n + 1
  /\ UNCHANGED <<pc, exit_code, stats, agreed>>

\* The list of validations is built (no base rules file is given).
ExpectDone ==
  /\ pc = "v_build"
  /\ n = Len(replay.Q)
  /\ pc' = "v_check"
  /\ n' = 0
  /\ UNCHANGED <<exit_code, validations, stats, agreed>>

\* One turn of: for expected in validations. The file of the subnet is the one
\* the merger has just written: it holds final_list (no value of the rows holds
\* a quote, a brace or an equals sign, so parse_hcl_rules reads back each block
\* as format_rule wrote it).
MatchWritten ==
  /\ pc = "v_check"
  /\ n < Len(validations)
  /\ stats' =
       IF \E i \in 1..Len(final_list) : rules_match(validations[n + 1], final_list[i])
         THEN [stats EXCEPT !.total = @ + 1, !.ok = @ + 1]
         ELSE [stats EXCEPT !.total = @ + 1, !.missing = @ + 1]
  /\ n' = n + 1
  /\ UNCHANGED <<pc, exit_code, validations, agreed>>

NextAgree ==
  \/ NextSubnet
  \/ TrackUsed
  \/ DriftSkip
  \/ AgreeClient
  \/ AgreeClientDone
  \/ BaseSkip
  \/ ValidatorStart
  \/ ExpectClient
  \/ ExpectDone
  \/ MatchWritten
  \/ CheckExit

SpecAgree == InitAgree /\ [][NextAgree]_vars

\* ------------------------------------------------------------ the gateway subnet
\* if str(subnet_key).lower() == "gatewaysubnet": continue
SkippedKey(key) == LowerText(key) = "gatewaysubnet"

\* What the choice of the subnets to visit leaves alone.
body == <<project_vars, tfvars_exists, excel_readable, exit_code, segment, n, final_list,
          history, files, cidr_args, cidr_result, validations>>

\* merge_nsg_rules at "Determine Target Subnets", with a locals.tf and a client
\* sheet that may hold the gateway subnet.
InitGateway ==
  /\ pc = "start"
  /\ locals_tf \in GatewayConfigs
  /\ client_subnets \in GatewayClientChoices
  /\ base_enabled \in BOOLEAN
  /\ project_vars = [k \in {} |-> ""]
  /\ tfvars_exists = TRUE
  /\ excel_readable = TRUE
  /\ exit_code = -1
  /\ todo = {}
  /\ written = {}
  /\ subnet_key = ""
  /\ merged_rules = EmptyMap
  /\ used_priorities_in = {}
  /\ used_priorities_out = {}
  /\ prio_counters = InitialCounters
  /\ n = 0
  /\ final_list = <<>>
  /\ origin = EmptyMap
  /\ auto = [IN |-> <<>>, OUT |-> <<>>]
  /\ live_status = "none"
  /\ outcome = "none"
  /\ base_replaced = {}
  /\ replay = NoReplay
  /\ NoFiles
  /\ cidr_args = [base_cidr |-> "", newbits |-> 0, netnum |-> 0]
  /\ cidr_result = "?"
  /\ validations = <<>>

\* target_keys is built.
DetermineTargets ==
  /\ pc = "start"
  /\ todo' = TargetKeysIn(locals_tf, client_subnets, base_enabled)
  /\ pc' = "loop"
  /\ UNCHANGED <<written, subnet_key, base_enabled, client_subnets, locals_tf, body>>

\* A turn of the main loop that ends at its first line.
SkipGateway ==
  /\ pc = "loop"
  /\ \E key \in todo :
       /\ SkippedKey(key)
       /\ todo' = todo \ {key}
  /\ UNCHANGED <<pc, written, subnet_key, base_enabled, client_subnets, locals_tf, body>>

\* A turn of the main loop that goes through: the file is looked up, the
\* stages run and the output is written (the stages themselves are Spec's).
ProcessSubnet ==
  /\ pc = "loop"
  /\ \E key \in todo :
       /\ ~SkippedKey(key)
       /\ todo' = todo \ {key}
       /\ subnet_key' = key
       /\ written' = written \cup {key}
  /\ UNCHANGED <<pc, base_enabled, client_subnets, locals_tf, body>>

NextGateway ==
  \/ DetermineTargets
  \/ SkipGateway
  \/ ProcessSubnet

SpecGateway == InitGateway /\ [][NextGateway]_vars

\* ------------------------------------------------------------ a call of calculate_subnet_cidr
\* What a call of calculate_subnet_cidr leaves alone.
merger == <<pc, todo, written, subnet_key, project_vars, base_enabled, client_subnets,
         tfvars_exists, excel_readable, exit_code, segment, n, final_list, history, files,
            validations, locals_tf>>

InitCidr ==
  /\ pc = "done"
  /\ todo = {}
  /\ written = {}
  /\ subnet_key = ""
  /\ project_vars = [k \in {} |-> ""]
  /\ base_enabled = FALSE
  /\ client_subnets = {}
  /\ tfvars_exists = TRUE
  /\ excel_readable = TRUE
  /\ exit_code = -1
  /\ merged_rules = EmptyMap
  /\ used_priorities_in = {}
  /\ used_priorities_out = {}
  /\ prio_counters = InitialCounters
  /\ n = 0
  /\ final_list = <<>>
  /\ origin = EmptyMap
  /\ auto = [IN |-> <<>>, OUT |-> <<>>]
  /\ live_status = "none"
  /\ outcome = "none"
  /\ base_replaced = {}
  /\ replay = NoReplay
  /\ NoFiles
  /\ cidr_args \in [base_cidr : CidrTexts, newbits : CidrNewbits, netnum : CidrNetnums]
  /\ cidr_result = "?"
  /\ validations = <<>>
  /\ locals_tf = subnet_config

CalculateCidr ==
  /\ cidr_result = "?"
  /\ cidr_result' = calculate_subnet_cidr(cidr_args.base_cidr, cidr_args.newbits, cidr_args.netnum)
  /\ UNCHANGED <<merger, cidr_args>>

NextCidr == CalculateCidr

SpecCidr == InitCidr /\ [][NextCidr]_vars

\* ------------------------------------------------------------ properties
Origins == { origin[p] : p \in DOMAIN origin }
Last(seq) == seq[Len(seq)]
\* The cell holds a number other than 0.
ExplicitCell(cell) == ParsePriority(cell) \notin {{}, {0}}
CellPriority(cell) == CHOOSE p \in ParsePriority(cell) : TRUE

\* C1: in every state of a subnet's merge (after seeding, after each drift import,
\* each client row, each base row) and in the final map, every key p of
\* merged_rules maps to a rule whose priority field is p.
C1_KeyIsPriority == \A p \in DOMAIN merged_rules : merged_rules[p].priority = p

\* A written map that holds a rule of each of the four sources.
C1_Witness == AfterWrite /\ Origins = {"existing", "drift", "client", "base"}

\* C2, as claimed: merging again with the result R as the existing rules and the
\* same client rows Q gives R again, for every Q.
C2_Idempotent == (pc = "done" /\ replay.run = 2) => merged_rules = replay.R

\* C2, amended: merging again with R as the existing rules and the same client
\* rows Q gives R again when every row of Q carries an explicit (non-zero)
\* priority.
C2_IdempotentExplicit ==
  (pc = "done" /\ replay.run = 2
     /\ \A i \in 1..Len(replay.Q) : ExplicitCell(replay.Q[i].Priority))
    => merged_rules = replay.R

\* A second run over two explicit rows, one of them in R next to an existing rule.
C2_Witness ==
  /\ pc = "done"
  /\ replay.run = 2
  /\ Len(replay.Q) >= 2
  /\ \A i \in 1..Len(replay.Q) : ExplicitCell(replay.Q[i].Priority)
  /\ \E p \in DOMAIN replay.R : replay.R[p].description = "Client"
  /\ \E p \in DOMAIN replay.R : replay.R[p].description = "Existing"

\* C3: a priority auto-allocated for a client row is not in use in the subnet at
\* that moment: it is no key of merged_rules and in neither used set, so the row
\* adds a key and leaves every rule of the map as it was.
C3_AutoPriorityUnused ==
  [][\A d \in {"IN", "OUT"} :
       Len(auto'[d]) > Len(auto[d]) =>
         LET p == Last(auto'[d])
         IN /\ p \notin DOMAIN merged_rules
            /\ p \notin used_priorities_in \cup used_priorities_out
            /\ DOMAIN merged_rules' = DOMAIN merged_rules \cup {p}
            /\ \A q \in DOMAIN merged_rules : merged_rules'[q] = merged_rules[q]]_vars

\* An inbound allocation that had to step over a priority held by an outbound rule.
C3_Witness ==
  /\ pc = "client"
  /\ outcome = "allocated"
  /\ auto["IN"] # <<>>
  /\ Last(auto["IN"]) > START_PRIORITY
  /\ START_PRIORITY \in DOMAIN merged_rules
  /\ START_PRIORITY \notin used_priorities_in

\* The candidate rule of a client row with an explicit priority.
Candidate(row) == ClientRule(subnet_key, row, CellPriority(row.Priority))

\* C4: a client row with an explicit priority p already in use, identical on the
\* six fields to the rule at p, is a no-op: the map is unchanged (one rule at p,
\* the one that was there) and no priority is allocated.
C4_IdenticalRequestNoOp ==
  [][\A row \in ClientRows :
       (/\ ClientRow(row)
        /\ ExplicitCell(row.Priority)
        /\ CellPriority(row.Priority) \in DOMAIN merged_rules
        /\ SameFields(merged_rules[CellPriority(row.Priority)], Candidate(row)))
       => /\ merged_rules' = merged_rules
          /\ prio_counters' = prio_counters
          /\ auto' = auto]_vars

\* Such a row has just been processed.
C4_Witness == pc = "client" /\ outcome = "noop"

\* C5: a client row with an explicit priority p in use by a rule that differs in
\* a field is dropped: the rule at p and the rest of the map are unchanged, the
\* row's rule is at no priority, the counters and used sets are not touched.
C5_ConflictDropped ==
  [][\A row \in ClientRows :
       (/\ ClientRow(row)
        /\ ExplicitCell(row.Priority)
        /\ CellPriority(row.Priority) \in DOMAIN merged_rules
        /\ ~SameFields(merged_rules[CellPriority(row.Priority)], Candidate(row)))
       => /\ merged_rules' = merged_rules
          /\ origin' = origin
          /\ \A q \in DOMAIN merged_rules' : merged_rules'[q] # Candidate(row)
          /\ prio_counters' = prio_counters
          /\ auto' = auto
          /\ used_priorities_in' = used_priorities_in
          /\ used_priorities_out' = used_priorities_out]_vars

\* Such a row has just been processed.
C5_Witness == pc = "client" /\ outcome = "conflict"

\* C6, as claimed: after the base stage every base row with an explicit priority
\* p has its rule at p.  (The base rows of the subnet are the ones whose rule is
\* still in the map and the ones in base_replaced.)
C6_EveryBaseRowStays ==
  AfterWrite => \A r \in base_replaced :
                  r.priority \in DOMAIN merged_rules /\ merged_rules[r.priority] = r

\* C6, amended: right after a base row with an explicit priority p is processed
\* the map holds at p the rule built from that row, whatever rule (existing,
\* imported, requested or of an earlier base row) was at p before, and no other
\* priority changes; a rule stored by a base row stays at its priority to the end
\* of the stage unless a later base row with the same priority replaces it.
C6_BaseRowOverwrites ==
  [][/\ \A row \in BaseRows :
          (BaseRow(row) /\ ParsePriority(row.Priority) # {}) =>
            LET p == CellPriority(row.Priority)
            IN /\ p \in DOMAIN merged_rules'
               /\ merged_rules'[p] = BaseRule(subnet_key, row, p)
               /\ origin'[p] = "base"
               /\ \A q \in DOMAIN merged_rules \ {p} : merged_rules'[q] = merged_rules[q]
     /\ \A p \in DOMAIN merged_rules :
          (pc = "base" /\ origin[p] = "base") =>
            /\ p \in DOMAIN merged_rules'
            /\ \/ merged_rules'[p] = merged_rules[p]
               \/ \E row \in BaseRows : BaseRow(row) /\ ParsePriority(row.Priority) = {p}]_vars

\* A written map in which a base rule sits on a priority that an earlier stage
\* had used, after a base row replaced another base row's rule.
C6_Witness ==
  /\ AfterWrite
  /\ \E p \in DOMAIN origin :
       origin[p] = "base" /\ p \in used_priorities_in \cup used_priorities_out
  /\ base_replaced # {}

\* C7: a drift rule whose priority is no key of the map is stored at that priority
\* with the description 'Imported from Azure Drift' and its priority joins the
\* used set of its direction; one whose priority is a key is skipped and the map
\* is unchanged.  Nothing in the drift stage removes or changes a rule of the map.
C7_DriftImport ==
  [][/\ \A az \in AzureRules :
          DriftRow(az) =>
            IF az.priority \in DOMAIN merged_rules
              THEN merged_rules' = merged_rules
              ELSE /\ DOMAIN merged_rules' = DOMAIN merged_rules \cup {az.priority}
                   /\ merged_rules'[az.priority].description = "Imported from Azure Drift"
                   /\ merged_rules'[az.priority].priority = az.priority
                   /\ merged_rules'[az.priority].direction = az.direction
                   /\ merged_rules'[az.priority].destination_port_range = az.dest_port
                   /\ az.direction = "Inbound" => az.priority \in used_priorities_in'
                   /\ az.direction = "Outbound" => az.priority \in used_priorities_out'
     /\ pc \in {"drift", "import"} =>
          \A q \in DOMAIN merged_rules :
            q \in DOMAIN merged_rules' /\ merged_rules'[q] = merged_rules[q]]_vars

\* A drift rule has just been skipped, next to an imported one and an existing one.
C7_Witness ==
  /\ pc = "import"
  /\ outcome = "known"
  /\ "drift" \in Origins
  /\ "existing" \in Origins

\* C8: within a subnet's run an auto-allocated priority is greater than every
\* priority auto-allocated before for the same direction, and a direction's
\* counter never decreases.
C8_Monotonic ==
  [][\A d \in {"IN", "OUT"} :
       /\ Len(auto'[d]) > Len(auto[d]) =>
            \A i \in 1..Len(auto[d]) : auto[d][i] < Last(auto'[d])
       /\ pc \in {"drift", "import", "client", "base"} =>
            prio_counters'[d] >= prio_counters[d]]_vars

\* Two allocations for one direction.
C8_Witness == pc = "client" /\ Len(auto["IN"]) >= 2

\* The priorities of the existing file in the user-managed band.
ExistingBand == { p \in DOMAIN origin : origin[p] = "existing" /\ 1000 <= p /\ p < 2000 }

C10_LiveFailureIsolated ==
  [][/\ (pc = "drift" /\ live_status' \in {"failed", "unavailable"}) =>
          /\ pc' = "client"
          /\ merged_rules' = merged_rules
          /\ used_priorities_in' = used_priorities_in
          /\ used_priorities_out' = used_priorities_out
          /\ prio_counters' = prio_counters
     /\ live_status' \in {"failed", "unavailable"} =>
          "drift" \notin { origin'[p] : p \in DOMAIN origin' }
     /\ (live_status' \in {"failed", "unavailable"} /\ pc' \in {"loop", "done"}) =>
          subnet_key' \in written'
     /\ pc' = "done" => written' = TargetKeys]_vars

\* A run that ended with both subnets written, the last one after a failed query
\* and with a client rule and a base rule in its map.
C10_Witness ==
  /\ pc = "done"
  /\ live_status = "failed"
  /\ written = TargetKeys
  /\ "client" \in Origins
  /\ "base" \in Origins

\* C11: every rule stored by the client stage or the base stage is named
\* {token}_{IN|OUT}_{access}{priority}: the token is the subnet key without its
\* non-alphanumeric characters, the suffix is the rule's priority, the access is
\* the rule's access, and the direction token is IN exactly when the rule's
\* direction is Inbound and OUT exactly when it is Outbound.
C11_NameMatchesRule ==
  \A p \in DOMAIN merged_rules :
    origin[p] \in {"client", "base"} =>
      LET r == merged_rules[p]
      IN \E d \in {"IN", "OUT"} :
           /\ r.name = SubnetToken(subnet_key) \o "_" \o d \o "_" \o r.access
                          \o ToString(r.priority)
           /\ d = "IN" <=> r.direction = "Inbound"
           /\ d = "OUT" <=> r.direction = "Outbound"

\* C12: in one run two different subnet keys are never resolved to the same
\* existing file and never write the same output file: every subnet that has
\* written still owns its output file.
C12_OwnOutputFile ==
  /\ \A k1 \in DOMAIN resolved : \A k2 \in DOMAIN resolved :
       (k1 # k2 /\ resolved[k1] # <<>>) => resolved[k1] # resolved[k2]
  /\ \A k1 \in DOMAIN out_of : \A k2 \in DOMAIN out_of :
       k1 # k2 => out_of[k1] # out_of[k2]
  /\ \A k \in DOMAIN out_of : outputs[out_of[k]] = k

C14_BaseOnlyForNsgSubnets ==
  \A p \in DOMAIN origin :
    origin[p] = "base" =>
      subnet_key \in DOMAIN subnet_config /\ subnet_config[subnet_key].has_nsg

\* C15: a rule block of an existing file that has no priority is skipped: the map
\* is left as it was, the loop over the blocks goes on and the command does not
\* end there, so the subnet and the ones after it are still merged and written.
C15_BlockWithoutPrioritySkipped ==
  [][\A r \in BlocksWithoutPriority :
       LoadBlock(r) => /\ pc' = "load"
                       /\ merged_rules' = merged_rules
                       /\ exit_code' = exit_code]_vars

\* C16: without the tfvars folder the run stops before any subnet is processed:
\* nothing is written and the command ends with an exit code other than 0.
C16_MissingFolderFails ==
  (~tfvars_exists /\ pc # "start") =>
    /\ pc = "aborted"
    /\ written = {}
    /\ exit_code # -1
    /\ exit_code # 0

\* The base block of the call, when its text is a valid one.
CallBase == CHOOSE x \in ip_network(cidr_args.base_cidr) : TRUE

\* C17, as claimed: for a valid base block of prefix length b and
\* 0 <= netnum < 2^newbits the call returns the block of prefix length
\* b + newbits at the base address plus netnum * 2^(32 - b - newbits).
C17_NthSubBlock ==
  (/\ cidr_result # "?"
   /\ ip_network(cidr_args.base_cidr) # {}
   /\ cidr_args.netnum < Pow2(cidr_args.newbits))
  => /\ cidr_result # ""
     /\ cidr_result =
          FormatCidr(CallBase.addr
                       + cidr_args.netnum * Pow2(32 - CallBase.len - cidr_args.newbits),
                     CallBase.len + cidr_args.newbits)

\* C17, amended: the same, for b + newbits <= 32.
C17_NthSubBlockWithin32 ==
  (/\ cidr_result # "?"
   /\ ip_network(cidr_args.base_cidr) # {}
   /\ cidr_args.netnum < Pow2(cidr_args.newbits)
   /\ CallBase.len + cidr_args.newbits <= 32)
  => /\ cidr_result # ""
     /\ cidr_result =
          FormatCidr(CallBase.addr
                       + cidr_args.netnum * Pow2(32 - CallBase.len - cidr_args.newbits),
                     CallBase.len + cidr_args.newbits)

\* The call (10.0.0.0/16, 8, 1) has returned 10.0.1.0/24.
C17_Witness ==
  /\ cidr_args = [base_cidr |-> "10.0.0.0/16", newbits |-> 8, netnum |-> 1]
  /\ cidr_result = "10.0.1.0/24"

\* What the placeholders of a text of the base rules sheet stand for.
Resolved(text, current, vnet) ==
  CASE text = "{{CurrentSubnet}}" -> current
    [] text = "{{VNetCIDR}}" -> vnet
    [] text = "{{CurrentSubnet}},{{VNetCIDR}},{{CurrentSubnet}}" ->
         current \o "," \o vnet \o "," \o current
    [] OTHER -> text

\* calculate_subnet_cidr over the subnet's newbits and netnum.
cidr_of(key) ==
  calculate_subnet_cidr(vnet_cidr, subnet_config[key].newbits, subnet_config[key].netnum)

\* The computed address block of the subnet: the (zero-based) netnum-th block
\* of the project's address space, or the marker when there is none.
BlockOf(key) ==
  IF key \in DOMAIN subnet_config /\ cidr_of(key) # ""
    THEN cidr_of(key)
    ELSE "ERROR_CIDR_CALC"

\* C18: a base rule is stored with every {{CurrentSubnet}} of its source and
\* destination replaced by the subnet's computed block and every {{VNetCIDR}}
\* by the project's address space, and holds neither placeholder.
C18_PlaceholdersReplaced ==
  [][\A row \in TemplateRows :
       (BaseRow(row) /\ ParsePriority(row.Priority) # {}) =>
         LET r == merged_rules'[CHOOSE p \in ParsePriority(row.Priority) : TRUE]
         IN /\ r.source_address_prefix = Resolved(row.Source, BlockOf(subnet_key), vnet_cidr)
            /\ r.destination_address_prefix =
                 Resolved(row.Destination, BlockOf(subnet_key), vnet_cidr)
            /\ \A t \in {r.source_address_prefix, r.destination_address_prefix} :
                 ~InText("{{CurrentSubnet}}", t) /\ ~InText("{{VNetCIDR}}", t)]_vars

\* A base rule of App_1 in 10.0.0.0/16 holds 10.0.1.0/24 and 10.0.0.0/16.
C18_Witness ==
  /\ subnet_key = "App_1"
  /\ \E p \in DOMAIN merged_rules :
       /\ origin[p] = "base"
       /\ merged_rules[p].source_address_prefix = "10.0.1.0/24,10.0.0.0/16,10.0.1.0/24"
       /\ merged_rules[p].destination_address_prefix = "10.0.0.0/16"

\* C19, as claimed, for the validator: where the calculation of the subnet's
\* block fails, the expected rule of a base row carries the marker
\* ERROR_CIDR_CALC in the place of {{CurrentSubnet}}.
C19_MarkerInEveryCaller ==
  [][\A row \in TemplateRows :
       (ValidateBaseRow(row) /\ CalculatedCidr(subnet_key, project_vars) = "") =>
         /\ Last(validations').source = Resolved(row.Source, "ERROR_CIDR_CALC", vnet_cidr)
         /\ Last(validations').destination =
              Resolved(row.Destination, "ERROR_CIDR_CALC", vnet_cidr)]_vars

\* C20: a base row whose Priority cell holds no number is skipped: the rules
\* of the subnet stay as they are, the loop over the base rows goes on with
\* the next row, and the subnets still to visit stay to be visited.
C20_RowWithoutPrioritySkipped ==
  [][\A row \in TemplateRows :
       (BaseRow(row) /\ ParsePriority(row.Priority) = {}) =>
         /\ merged_rules' = merged_rules
         /\ origin' = origin
         /\ pc' = "base"
         /\ n' = n + 1
         /\ todo' = todo
         /\ exit_code' = exit_code]_vars

\* In a later subnet, a base row was stored and the row after it, without a
\* priority, was skipped: the stored rule is still there.
C20_Witness ==
  /\ pc = "base"
  /\ n = 2
  /\ written # {}
  /\ outcome = "base_skipped"
  /\ \E p \in DOMAIN origin : origin[p] = "base"

\* C21: the written list holds every Inbound rule before every Outbound rule
\* and, within one direction, strictly ascending priorities; it holds each rule
\* of the subnet's final rules once and nothing else.
C21_InboundFirstAscending ==
  AfterWrite =>
    /\ Len(final_list) = Cardinality(DOMAIN merged_rules)
    /\ \A p \in DOMAIN merged_rules :
         \E i \in 1..Len(final_list) : final_list[i] = merged_rules[p]
    /\ \A i \in 1..Len(final_list) :
         /\ final_list[i].priority \in DOMAIN merged_rules
         /\ final_list[i] = merged_rules[final_list[i].priority]
    /\ \A i, j \in 1..Len(final_list) :
         i < j =>
           /\ ~(final_list[i].direction = "Outbound" /\ final_list[j].direction = "Inbound")
           /\ final_list[i].direction = final_list[j].direction =>
                final_list[i].priority < final_list[j].priority

\* An Inbound rule is written before an Outbound rule of a lower priority number.
C21_Witness ==
  /\ AfterWrite
  /\ \E i, j \in 1..Len(final_list) :
       /\ i < j
       /\ final_list[i].direction = "Inbound"
       /\ final_list[j].direction = "Outbound"
       /\ final_list[i].priority > final_list[j].priority

\* The key is the gateway subnet's: it spells GatewaySubnet, or locals.tf gives
\* it the name GatewaySubnet.
IsGatewaySubnet(key) ==
  \/ LowerText(key) = "gatewaysubnet"
  \/ key \in DOMAIN locals_tf /\ locals_tf[key].name = "GatewaySubnet"

\* C22, as claimed: the gateway subnet is never processed, whether the client
\* sheet names it or locals.tf holds it with has_nsg = true.
C22_GatewayNeverProcessed == \A key \in written : ~IsGatewaySubnet(key)

\* The file is the subnet's own: its cleaned name is the subnet's safe name,
\* alone or after "nsg".
OwnFile(key, file) ==
  ValidatorCleanFilename(file) \in {SafeName(key), <<"n", "s", "g">> \o SafeName(key)}

\* The expected rule has a match in the file of its own subnet.
MatchedInOwnFile(expected) ==
  \E file \in DOMAIN tfvars_files :
    /\ OwnFile(expected.subnet_key, file)
    /\ \E i \in 1..Len(tfvars_files[file]) : rules_match(expected, tfvars_files[file][i])

\* C23, as claimed: the validator exits with 0 exactly when every expected rule
\* has a match in its subnet's file, and with 1 otherwise (a rule without a
\* match, a file that is missing or holds no rule).
C23_ExitZeroIffAllMatched ==
  pc = "v_done" =>
    /\ exit_code \in {0, 1}
    /\ exit_code = 0 <=> \A i \in 1..Len(validations) : MatchedInOwnFile(validations[i])

\* Every rule the map held before the step is still there, as it was.
KeepsAll == \A p \in DOMAIN merged_rules : p \in DOMAIN merged_rules' /\ merged_rules'[p] = merged_rules[p]

\* The step stores rule at p and leaves every other priority as it was.
StoresOnly(p, rule) ==
  /\ DOMAIN merged_rules' = DOMAIN merged_rules \cup {p}
  /\ merged_rules'[p] = rule
  /\ \A q \in DOMAIN merged_rules \ {p} : merged_rules'[q] = merged_rules[q]

\* C24: the stages run in the order file, live state, request, template, and
\* - a block of the file is stored at its priority, over an earlier block;
\* - a live-state rule is stored only at a priority nothing holds;
\* - a request row is stored only at a priority nothing holds (the one it asks
\*   for, or the one allocated to it);
\* - a template row is stored at its priority over whatever is there;
\* so the rule at p is the last template row's, else the file's last block,
\* else the first live-state rule, else the first request row that got p.
C24_SourcePrecedence ==
  [][/\ (pc = "load" /\ pc' = "load") =>
          \A r \in ExistingBlocks : LoadBlock(r) => StoresOnly(r.priority, r)
     /\ (pc = "import" /\ pc' = "import") => \A az \in AzureRules :
          DriftRow(az) =>
            IF az.priority \in DOMAIN merged_rules
              THEN merged_rules' = merged_rules
              ELSE StoresOnly(az.priority, DriftRule(az))
     /\ (pc = "client" /\ pc' = "client") => \A row \in ClientRows :
          ClientRow(row) =>
            /\ KeepsAll
            /\ \/ merged_rules' = merged_rules
               \/ \E p \in DOMAIN merged_rules' \ DOMAIN merged_rules :
                    /\ StoresOnly(p, ClientRule(subnet_key, row, p))
                    /\ ExplicitCell(row.Priority) => p = CellPriority(row.Priority)
     /\ (pc = "base" /\ pc' = "base") => \A row \in BaseRows :
          (BaseRow(row) /\ ParsePriority(row.Priority) # {}) =>
            StoresOnly(CellPriority(row.Priority),
                       BaseRule(subnet_key, row, CellPriority(row.Priority)))
     /\ (pc # "loop" /\ pc' # pc) => merged_rules' = merged_rules
     /\ pc = "load" => pc' \in {"load", "drift", "crashed"}
     /\ pc = "drift" => pc' \in {"import", "client"}
     /\ pc = "import" => pc' \in {"import", "client"}
     /\ pc = "client" => pc' \in {"client", "base"}
     /\ pc = "base" => pc' \in {"base", "loop", "done"}]_vars

\* A written subnet holds a rule of each source: a template row's (stored over
\* a request's), a block of the file, a live-state rule and a request row's.
C24_Witness ==
  /\ AfterWrite
  /\ Origins = {"existing", "drift", "client", "base"}
  /\ \E p \in DOMAIN origin : origin[p] = "base" /\ p \in used_priorities_in \cup used_priorities_out

\* The direction the merger stores for a request row.
RowDirection(row) == ApiGet(UpperStrip(row.Direction), "Inbound")

\* A rule of the other direction holds priority p.
OtherDirectionHolds(p, direction) ==
  p \in DOMAIN merged_rules /\ merged_rules[p].direction # direction

\* The step leaves the rule set and the used priorities as they were.
Skipped == UNCHANGED <<merged_rules, used_priorities_in, used_priorities_out>>

\* C25: the rule set is keyed by the priority alone. Every rule sits at its own
\* priority and the written list holds no priority twice; a block of the file
\* whose number a rule of the other direction holds takes that rule's place,
\* so one of the two remains; a live-state rule or an explicit request whose
\* number a rule of the other direction holds is skipped.
C25_KeyedByPriorityAlone ==
  [][/\ \A p \in DOMAIN merged_rules' : merged_rules'[p].priority = p
     /\ \A i, j \in DOMAIN final_list' :
          final_list'[i].priority = final_list'[j].priority => i = j
     /\ (pc = "load" /\ pc' = "load") => \A r \in ExistingBlocks :
          (LoadBlock(r) /\ OtherDirectionHolds(r.priority, r.direction)) =>
            /\ DOMAIN merged_rules' = DOMAIN merged_rules
            /\ merged_rules'[r.priority] = r
     /\ (pc = "import" /\ pc' = "import") => \A az \in AzureRules :
          (DriftRow(az) /\ OtherDirectionHolds(az.priority, az.direction)) => Skipped
     /\ (pc = "client" /\ pc' = "client") => \A row \in ClientRows :
          (/\ ClientRow(row)
           /\ ExplicitCell(row.Priority)
           /\ OtherDirectionHolds(CellPriority(row.Priority), RowDirection(row))) => Skipped]_vars

\* A live-state rule was skipped because a rule of the other direction holds
\* its priority.
C25_Witness ==
  /\ pc = "import"
  /\ outcome = "known_other"
  /\ \E p \in DOMAIN merged_rules : origin[p] = "existing"

\* The priorities the allocator gave to rows without an explicit priority.
AutoAllocated == { auto[d][i] : d \in {"IN"}, i \in DOMAIN auto["IN"] }
                   \cup { auto[d][i] : d \in {"OUT"}, i \in DOMAIN auto["OUT"] }

\* Priority p is held by no rule of the file, no imported rule and no explicit
\* request: free, or handed out by the allocator to an earlier row.
FreeForExplicit(p) ==
  \/ p \notin DOMAIN merged_rules
  \/ origin[p] = "client" /\ p \in AutoAllocated

\* C26, as claimed: an explicit request for a priority that no rule of the
\* file, no imported rule and no other explicit request uses is inserted at
\* that priority whatever rows were processed before it; an earlier row without
\* a priority never makes it a conflict.
C26_ExplicitInsertedInAnyOrder ==
  [][(pc = "client" /\ pc' = "client") => \A row \in ClientRows :
       (/\ ClientRow(row)
        /\ ExplicitCell(row.Priority)
        /\ FreeForExplicit(CellPriority(row.Priority))) =>
          /\ CellPriority(row.Priority) \in DOMAIN merged_rules'
          /\ merged_rules'[CellPriority(row.Priority)] =
               ClientRule(subnet_key, row, CellPriority(row.Priority))]_vars

\* The rules the merger wrote for the i-th request row: the written rules that
\* are the dict it builds from that row at their priority.
WrittenFor(i) ==
  { j \in DOMAIN final_list :
      final_list[j] = ClientRule(subnet_key, replay.Q[i], final_list[j].priority) }

\* C27, as claimed: the expected rule the validator derives from a request row
\* matches the rule the merger wrote for that row, whatever the cells hold.
C27_ValidatorAgreesWithMerger ==
  pc \in {"v_check", "v_done"} =>
    \A i \in DOMAIN validations : \A j \in WrittenFor(i) :
      rules_match(validations[i], final_list[j])

\* The rule files the run found in the folder: the files that were there before
\* it and do not carry the suffix in their name.
SourceFiles ==
  { f \in DOMAIN tfvars_files : tfvars_files[f].source /\ ~Contains(f, OUTPUT_SUFFIX) }

\* C28, as claimed: a run never modifies a rule file it found. A subnet with an
\* existing file is written to another file, which carries the suffix; a file
\* that carries the suffix is never read as an existing file; a subnet without
\* an existing file is written to a file that is not a source file; and every
\* source file holds what it held before the run.
C28_SourceFilesUntouched ==
  /\ \A k \in DOMAIN resolved : resolved[k] # <<>> => ~Contains(resolved[k], OUTPUT_SUFFIX)
  /\ \A k \in DOMAIN out_of :
       IF resolved[k] # <<>>
         THEN out_of[k] # resolved[k] /\ Contains(out_of[k], OUTPUT_SUFFIX)
         ELSE out_of[k] \notin SourceFiles
  /\ \A f \in SourceFiles : tfvars_files[f] = Untouched

====
